---- MODULE Spec2Model ----
(***************************************************************************)
(* A model of the tileset build pipeline of bevy_tileset_importer:         *)
(*   - the tile group table (TileGroups, src/lib.rs),                      *)
(*   - the atlas builder and the import driver (src/importer),             *)
(*   - the binary tileset file (src/format.rs).                            *)
(* Each part has its own specification; the variables of the other parts   *)
(* stay at their idle values.                                              *)
(***************************************************************************)
EXTENDS Integers, Sequences, FiniteSets, TLC

VARIABLES
    \* TileGroups (src/lib.rs:67-70)
    groups,          \* HashMap<String, Range<usize>>: name -> [start, end]
    group_tiles,     \* Vec<TileIndex>
    tg_status,       \* "ok", or "panic" once a slice operation went out of bounds
    tg_call,         \* history: the last call made on the table
    tile_owner       \* history: for each position of group_tiles, the group it was inserted for

groupVars == <<groups, group_tiles, tg_status, tg_call, tile_owner>>

VARIABLES
    \* TilesetImportData (src/importer/mod.rs:132-137) and the import settings
    tile_size,       \* UVec2 <<w, h>>
    tile_filter,     \* TileFilter: [kind, list]
    tile_groups,     \* Vec<(String, Vec<TileSourceIndex>)>: sequence of [name, tiles]
    sources,         \* the validated sources: sequence of [texture, frames]
    texture_format,  \* the output texture format
    generate_mips,   \* BOOLEAN
    \* the locals of TilesetImportData::import
    pc,              \* where the import is: "idle", "new", "filter", "groups", "done", "error", "panic"
    texture_builder, \* TextureBuilder: [mip_bufs, texture_data, tile_count, pixel_bytes]
    tile_dedup,      \* HashMap<TileSourceIndex, TileIndex>
    cursor,          \* [fi, gi, gj]: position in the filter and in the groups
    out_groups,      \* the groups collected so far, and the open group's indices
    result,          \* the TilesetFile or the error returned
    imported         \* history: per successful import_tile call, [ref, index]

importVars == <<tile_size, tile_filter, tile_groups, sources, texture_format, generate_mips,
                pc, texture_builder, tile_dedup, cursor, out_groups, result, imported>>

VARIABLES
    \* TilesetFile (src/format.rs:20-29) and the stream it is written to and read from
    file,            \* the TilesetFile in hand, or NoFile
    file_bytes,      \* the bytes of the stream
    written,         \* history: the file and the compression file_bytes were written with
    file_call,       \* history: the last call of new, write, read or into_count_groups_image
    loaded           \* the result of into_count_groups_image, or NoFile

fileVars == <<file, file_bytes, written, file_call, loaded>>

VARIABLES
    \* One call of a mip filter (src/importer/texture_builder.rs:170-223)
    mip_src,         \* the Image of level m - 1
    mip_tgt,         \* the Image of level m
    mip_call         \* history: the filter called and whether it returned Ok

mipVars == <<mip_src, mip_tgt, mip_call>>

VARIABLES
    \* A TilesetLayout and the image it is resolved against (src/layout.rs)
    layout,          \* TilesetLayout: [kind, ..]
    image_size,      \* UVec2 <<w, h>>
    layout_call      \* history: the last call of tile_info or frame, and what it returned

layoutVars == <<layout, image_size, layout_call>>

vars == <<groupVars, importVars, fileVars, mipVars, layoutVars>>

-----------------------------------------------------------------------------
(* Generic helpers *)

Min(a, b) == IF a < b THEN a ELSE b
Max(a, b) == IF a > b THEN a ELSE b

\* All sequences over S of length at most n.
SeqsUpTo(S, n) == UNION {[1..k -> S] : k \in 0..n}

-----------------------------------------------------------------------------
(* Tile group table: src/lib.rs *)

\* Bounds of the tile group model.
MaxGroupTiles == 4
MaxInsert == 2

GroupNames == {"a", "b", "c"}
TileVals == {1, 2}

NoCall == [op |-> "none"]

Range(s, e) == [start |-> s, end |-> e]

\* &self.group_tiles[r.clone()]: the slice of a range, or a panic when the range
\* does not lie inside the vector.
SliceOf(gt, r) ==
    IF r.start <= r.end /\ r.end <= Len(gt)
        THEN [panic |-> FALSE, tiles |-> SubSeq(gt, r.start + 1, r.end)]
        ELSE [panic |-> TRUE, tiles |-> <<>>]

\* TileGroups::get_group / TileGroups::group
GetGroup(g, gt, name) ==
    IF name \in DOMAIN g THEN SliceOf(gt, g[name]) ELSE [panic |-> FALSE, tiles |-> <<>>]

Group(name) == GetGroup(groups, group_tiles, name)

\* An insert_if_new that replaces the range of a name that exists.
InsertIfNewResult_Replace(g, gt, name, tiles) ==
    [groups |-> [n \in DOMAIN g \cup {name} |->
                    IF n = name THEN Range(Len(gt), Len(gt) + Len(tiles)) ELSE g[n]],
     group_tiles |-> gt \o tiles,
     ret |-> name \notin DOMAIN g]

\* TileGroups::insert_if_new
InsertIfNewResult(g, gt, name, tiles) ==
    LET tile_range == Range(Len(gt), Len(gt) + Len(tiles))
    IN  IF name \notin DOMAIN g
            THEN [groups |-> g @@ (name :> tile_range),
                  group_tiles |-> gt \o tiles,
                  ret |-> TRUE]
            ELSE [groups |-> g, group_tiles |-> gt, ret |-> FALSE]

\* "Fixup other ranges": the loop over self.groups.values_mut()
FixupRanges(g, old_tail, add_tiles_len) ==
    [n \in DOMAIN g |->
        IF g[n].start >= old_tail
            THEN Range(g[n].start + add_tiles_len, g[n].end + add_tiles_len)
            ELSE g[n]]

\* resize + copy_within(old_tail..old_tiles_len, new_tail) + copy_from_slice
ShiftTiles(gt, old_tail, tiles) ==
    SubSeq(gt, 1, old_tail) \o tiles \o SubSeq(gt, old_tail + 1, Len(gt))

\* TileGroups::insert. panic: copy_within with old_tail > old_tiles_len.
InsertResult(g, gt, name, tiles) ==
    LET old_tiles_len == Len(gt)
        add_tiles_len == Len(tiles)
        new_tiles_len == old_tiles_len + add_tiles_len
    IN  IF name \notin DOMAIN g
            THEN [panic |-> FALSE,
                  groups |-> g @@ (name :> Range(old_tiles_len, new_tiles_len)),
                  group_tiles |-> gt \o tiles]
            ELSE
                LET head == g[name].start
                    old_tail == g[name].end
                    new_tail == old_tail + add_tiles_len
                IN  IF old_tail = old_tiles_len
                        THEN [panic |-> FALSE,
                              groups |-> [g EXCEPT ![name] = Range(head, new_tiles_len)],
                              group_tiles |-> gt \o tiles]
                    ELSE IF old_tail > old_tiles_len
                        THEN [panic |-> TRUE, groups |-> g, group_tiles |-> gt]
                    ELSE [panic |-> FALSE,
                          groups |-> FixupRanges([g EXCEPT ![name] = Range(head, new_tail)],
                                                 old_tail, add_tiles_len),
                          group_tiles |-> ShiftTiles(gt, old_tail, tiles)]

\* The owners of the positions after an insert: the new tiles are placed where
\* InsertResult places them.
OwnerAfterInsert(g, own, name, n) ==
    LET tags == [i \in 1..n |-> name]
    IN  IF name \in DOMAIN g /\ g[name].end < Len(own)
            THEN SubSeq(own, 1, g[name].end) \o tags \o SubSeq(own, g[name].end + 1, Len(own))
            ELSE own \o tags

GroupsStart ==
    /\ groups = <<>>
    /\ group_tiles = <<>>
    /\ tg_status = "ok"
    /\ tg_call = NoCall
    /\ tile_owner = <<>>

\* No import is running.
ImportIdle ==
    /\ tile_size = <<1, 1>>
    /\ tile_filter = [kind |-> "None", list |-> <<>>]
    /\ tile_groups = <<>>
    /\ sources = <<>>
    /\ texture_format = "Rgba8Unorm"
    /\ generate_mips = FALSE
    /\ pc = "idle"
    /\ texture_builder = [mip_bufs |-> <<>>, texture_data |-> <<>>, tile_count |-> 0,
                          pixel_bytes |-> 0]
    /\ tile_dedup = <<>>
    /\ cursor = [fi |-> 0, gi |-> 0, gj |-> 0]
    /\ out_groups = [done |-> <<>>, open |-> <<>>]
    /\ result = [kind |-> "none"]
    /\ imported = <<>>

\* No TilesetFile, and no call made on one.
NoFile == [kind |-> "none"]

NoFileCall == [op |-> "none"]

\* No file is in hand and the stream is empty.
FileIdle ==
    /\ file = NoFile
    /\ file_bytes = <<>>
    /\ written = NoFile
    /\ file_call = NoFileCall
    /\ loaded = NoFile

\* No mip filter was called.
NoImage == [size |-> <<0, 0>>, format |-> "R8Unorm", data |-> <<>>]

MipIdle ==
    /\ mip_src = NoImage
    /\ mip_tgt = NoImage
    /\ mip_call = NoCall

\* No layout is being resolved.
LayoutIdle ==
    /\ layout = [kind |-> "Single"]
    /\ image_size = <<0, 0>>
    /\ layout_call = NoCall

GroupsInit == GroupsStart /\ ImportIdle /\ FileIdle /\ MipIdle /\ LayoutIdle

Insert(name, tiles) ==
    /\ tg_status = "ok"
    /\ Len(group_tiles) + Len(tiles) <= MaxGroupTiles
    /\ LET r == InsertResult(groups, group_tiles, name, tiles)
       IN  /\ groups' = r.groups
           /\ group_tiles' = r.group_tiles
           /\ tg_status' = IF r.panic THEN "panic" ELSE "ok"
           /\ tile_owner' = IF r.panic THEN tile_owner
                            ELSE OwnerAfterInsert(groups, tile_owner, name, Len(tiles))
    /\ tg_call' = [op |-> "insert", name |-> name, tiles |-> tiles,
                   existed |-> name \in DOMAIN groups,
                   at_tail |-> name \in DOMAIN groups /\ groups[name].end = Len(group_tiles),
                   ret |-> TRUE]
    /\ UNCHANGED <<importVars, fileVars, mipVars, layoutVars>>

InsertIfNew(name, tiles) ==
    /\ tg_status = "ok"
    /\ Len(group_tiles) + Len(tiles) <= MaxGroupTiles
    /\ LET r == InsertIfNewResult(groups, group_tiles, name, tiles)
       IN  /\ groups' = r.groups
           /\ group_tiles' = r.group_tiles
           /\ tile_owner' = IF r.ret THEN tile_owner \o [i \in 1..Len(tiles) |-> name]
                            ELSE tile_owner
           /\ tg_call' = [op |-> "insert_if_new", name |-> name, tiles |-> tiles,
                          existed |-> name \in DOMAIN groups,
                          at_tail |-> name \in DOMAIN groups /\ groups[name].end = Len(group_tiles),
                          ret |-> r.ret]
    /\ UNCHANGED <<tg_status, importVars, fileVars, mipVars, layoutVars>>

GroupsNext ==
    \/ \E name \in GroupNames, tiles \in SeqsUpTo(TileVals, MaxInsert) : Insert(name, tiles)
    \/ \E name \in GroupNames, tiles \in SeqsUpTo(TileVals, MaxInsert) : InsertIfNew(name, tiles)

SpecGroups == GroupsInit /\ [][GroupsNext]_vars

-----------------------------------------------------------------------------
(* Claims about the tile group table *)

\* The step is a call of insert on a group that existed before the call.
InsertOnExisting == tg_call'.op = "insert" /\ tg_call'.existed

\* C3: insert(name, tiles) on an existing group whose content was G makes
\* group(name) equal to G followed by tiles, whether or not the group's range
\* ends at the tail of the flat sequence (groups created empty included).
C3_InsertAppends ==
    [][InsertOnExisting =>
        /\ tg_status' = "ok"
        /\ GetGroup(groups', group_tiles', tg_call'.name) =
               [panic |-> FALSE, tiles |-> Group(tg_call'.name).tiles \o tg_call'.tiles]]_vars

\* Two half-open ranges share a position.
RangesOverlap(r1, r2) == Max(r1.start, r2.start) < Min(r1.end, r2.end)

\* C4: after any sequence of insert / insert_if_new calls the ranges of distinct
\* groups never overlap, and each group's range covers exactly the positions of
\* the flat sequence that hold that group's tiles.
C4_RangesTrackPositions ==
    /\ \A n1, n2 \in DOMAIN groups : n1 # n2 => ~RangesOverlap(groups[n1], groups[n2])
    /\ \A n \in DOMAIN groups :
           {p \in 1..Len(tile_owner) : tile_owner[p] = n} = (groups[n].start + 1)..groups[n].end

\* C5: insert(name, tiles) on an existing group leaves the contents returned by
\* group(other) unchanged for every other group name (only ranges may shift).
C5_InsertKeepsOthers ==
    [][InsertOnExisting =>
        \A other \in DOMAIN groups :
            other # tg_call'.name => GetGroup(groups', group_tiles', other) = Group(other)]_vars

\* C20: insert_if_new(name, tiles) on a name that exists returns false and
\* leaves the flat sequence and the range of every group unchanged; on a new
\* name it returns true, and group(name) is tiles afterwards.
C20_InsertIfNewFrame ==
    [][tg_call'.op = "insert_if_new" =>
          IF tg_call'.name \in DOMAIN groups
              THEN /\ ~tg_call'.ret
                   /\ groups' = groups
                   /\ group_tiles' = group_tiles
              ELSE /\ tg_call'.ret
                   /\ GetGroup(groups', group_tiles', tg_call'.name)
                          = [panic |-> FALSE, tiles |-> tg_call'.tiles]]_vars

\* insert_if_new with tiles was refused for a name that has a group.
C20_Witness ==
    /\ tg_call.op = "insert_if_new"
    /\ tg_call.existed
    /\ ~tg_call.ret
    /\ tg_call.tiles # <<>>
    /\ group_tiles # <<>>

\* The step is a call of insert with a name that had no group before the call.
InsertOnNew == tg_call'.op = "insert" /\ ~tg_call'.existed

\* C21: insert(name, tiles) with a name not yet present appends tiles to the
\* end of the flat sequence and records a range for name such that group(name)
\* is tiles; the range and the contents of every existing group are unchanged.
C21_InsertNewAppends ==
    [][InsertOnNew =>
        /\ tg_status' = "ok"
        /\ group_tiles' = group_tiles \o tg_call'.tiles
        /\ DOMAIN groups' = DOMAIN groups \cup {tg_call'.name}
        /\ groups'[tg_call'.name] = Range(Len(group_tiles), Len(group_tiles'))
        /\ GetGroup(groups', group_tiles', tg_call'.name)
               = [panic |-> FALSE, tiles |-> tg_call'.tiles]
        /\ \A other \in DOMAIN groups :
               /\ groups'[other] = groups[other]
               /\ GetGroup(groups', group_tiles', other) = Group(other)]_vars

\* The lengths of the ranges of the groups in a set, added up.
RECURSIVE RangeLengths(_)
RangeLengths(names) ==
    IF names = {} THEN 0
    ELSE LET n == CHOOSE n \in names : TRUE
         IN  (groups[n].end - groups[n].start) + RangeLengths(names \ {n})

\* C29: after any sequence of insert / insert_if_new calls every range has
\* start <= end <= length of the flat sequence, and the lengths of the ranges
\* add up to the length of the flat sequence; group and get_group never slice
\* out of bounds.
C29_RangesWithinFlat ==
    /\ tg_status = "ok"
    /\ \A n \in DOMAIN groups :
           /\ 0 <= groups[n].start
           /\ groups[n].start <= groups[n].end
           /\ groups[n].end <= Len(group_tiles)
           /\ ~Group(n).panic
    /\ RangeLengths(DOMAIN groups) = Len(group_tiles)

-----------------------------------------------------------------------------
(* Images and texture formats (bevy_image, wgpu_types as used by the importer) *)

\* TileIndex = u16: the values are 0 .. TileIndexLimit - 1.
TileIndexLimit == 65536

\* The texture formats of the model: one byte per pixel without alpha, four bytes
\* per pixel with alpha, and a block-compressed format, which has no pixel size.
TextureFormats == {"R8Unorm", "Rgba8Unorm", "Bc1RgbaUnorm"}

\* TextureFormat::pixel_size(): [ok, bytes]
PixelSize(format) ==
    CASE format = "R8Unorm" -> [ok |-> TRUE, bytes |-> 1]
      [] format = "Rgba8Unorm" -> [ok |-> TRUE, bytes |-> 4]
      [] OTHER -> [ok |-> FALSE, bytes |-> 0]

RECURSIVE BitLength(_)
\* 32 - n.leading_zeros()
BitLength(n) == IF n = 0 THEN 0 ELSE 1 + BitLength(n \div 2)

RECURSIVE Pow2(_)
Pow2(m) == IF m = 0 THEN 1 ELSE 2 * Pow2(m - 1)

\* Extent3d::max_mips(TextureDimension::D2)
MaxMips(size) == BitLength(Max(size[1], size[2]))

\* Extent3d::mip_level_size(m, TextureDimension::D2), width and height
MipLevelSize(size, m) == <<Max(1, size[1] \div Pow2(m)), Max(1, size[2] \div Pow2(m))>>

\* The number of pixels of one layer of a mip level.
LevelPixels(size, m) == MipLevelSize(size, m)[1] * MipLevelSize(size, m)[2]

RECURSIVE SumLevels(_, _)
\* The pixels of one layer summed over the mip levels 0 .. mips - 1.
SumLevels(size, mips) ==
    IF mips = 0 THEN 0 ELSE SumLevels(size, mips - 1) + LevelPixels(size, mips - 1)

\* A sequence of n copies of v.
Repeat(v, n) == [i \in 1..n |-> v]

\* Image::new_fill(size, D2, zero_pixel, format, ..)
NewFill(size, format) ==
    [size |-> size, format |-> format,
     data |-> Repeat(0, size[1] * size[2] * PixelSize(format).bytes)]

\* The bytes of the pixel at (x, y) of an image (row-major).
PixelAt(img, x, y) ==
    LET pb == PixelSize(img.format).bytes
        at == (x + y * img.size[1]) * pb
    IN  SubSeq(img.data, at + 1, at + pb)

\* The linear colour of the bytes of a pixel.
PixelColor(format, px) == IF format = "R8Unorm" THEN <<px[1], 0, 0, 255>> ELSE px

\* Image::get_color_at(x, y) in linear space, channels in 1/255: <<r, g, b, a>>;
\* a format without alpha is opaque. ok = FALSE is TextureAccessError::OutOfBounds.
GetColorAt(img, x, y) ==
    IF x >= img.size[1] \/ y >= img.size[2]
        THEN [ok |-> FALSE, color |-> <<0, 0, 0, 0>>]
        ELSE [ok |-> TRUE, color |-> PixelColor(img.format, PixelAt(img, x, y))]

\* The bytes Image::set_color_at stores for a linear colour.
ColorBytes(format, color) == IF format = "R8Unorm" THEN <<color[1]>> ELSE color

\* LinearRgba::NONE
ColorNone == <<0, 0, 0, 0>>

\* should_discard: alpha <= ALPHA_CUTOFF (1e-4), with alpha in 1/255.
AlphaCutoffInverse == 10000
ShouldDiscard(alpha) == alpha * AlphaCutoffInverse <= 255

ChannelSum(colors, c) ==
    LET RECURSIVE S(_)
        S(i) == IF i = 0 THEN 0 ELSE S(i - 1) + colors[i][c]
    IN  S(Len(colors))

\* alpha_discard_mix
AlphaDiscardMix(colors) ==
    IF \E i \in 1..Len(colors) : ShouldDiscard(colors[i][4])
        THEN ColorNone
        ELSE LET n == Len(colors)
                 linear_sum == [c \in 1..4 |->
                                   IF n > 1 THEN ChannelSum(colors, c) \div n
                                            ELSE ChannelSum(colors, c)]
             IN  IF ShouldDiscard(linear_sum[4]) THEN ColorNone ELSE linear_sum

\* The interpolation that keeps the other colour when one is transparent.
AlphaDiscardLerp_KeepOther(a, b, tn, td) ==
    IF ShouldDiscard(a[4]) THEN b
    ELSE IF ShouldDiscard(b[4]) THEN a
    ELSE [c \in 1..4 |-> (a[c] * (td - tn) + b[c] * tn) \div td]

\* alpha_discard_lerp with t = tn / td
AlphaDiscardLerp(a, b, tn, td) ==
    IF ShouldDiscard(a[4]) THEN ColorNone
    ELSE IF ShouldDiscard(b[4]) THEN ColorNone
    ELSE [c \in 1..4 |-> (a[c] * (td - tn) + b[c] * tn) \div td]

\* The pixels of a target image in row-major order: index i (from 0) is (tx, ty).
TargetX(tgt, i) == i % tgt.size[1]
TargetY(tgt, i) == i \div tgt.size[1]

\* The image tgt after set_color_at of colors[i + 1] at pixel i, for every pixel.
WithPixels(tgt, colors) ==
    LET pb == PixelSize(tgt.format).bytes
    IN  [tgt EXCEPT !.data =
            [k \in 1..Len(tgt.data) |->
                ColorBytes(tgt.format, colors[((k - 1) \div pb) + 1])[((k - 1) % pb) + 1]]]

\* The four texture reads of downscale_image_half for the source pixel (sx, sy).
HalfReads(src, sx, sy) ==
    <<GetColorAt(src, sx, sy), GetColorAt(src, sx + 1, sy),
      GetColorAt(src, sx, sy + 1), GetColorAt(src, sx + 1, sy + 1)>>

\* downscale_image_half: [ok, image]; the first texture access out of bounds ends it.
DownscaleImageHalf(src, tgt) ==
    LET n == tgt.size[1] * tgt.size[2]
        Reads(i) == HalfReads(src, 2 * TargetX(tgt, i), 2 * TargetY(tgt, i))
        Mixed(i) == AlphaDiscardMix([j \in 1..4 |-> Reads(i)[j].color])
    IN  IF \E i \in 0..(n - 1), j \in 1..4 : ~Reads(i)[j].ok
            THEN [ok |-> FALSE, image |-> tgt]
            ELSE [ok |-> TRUE, image |-> WithPixels(tgt, [i \in 1..n |-> Mixed(i - 1)])]

\* The two-stage interpolation of downscale_image_bilinear over its four reads.
BilinearMix(reads, tn_x, td_x, tn_y, td_y) ==
    AlphaDiscardLerp(AlphaDiscardLerp(reads[1].color, reads[2].color, tn_x, td_x),
                     AlphaDiscardLerp(reads[3].color, reads[4].color, tn_x, td_x),
                     tn_y, td_y)

\* The four texture reads of downscale_image_bilinear for the source pixel (sx, sy).
BilinearReads(src, sx, sy) ==
    <<GetColorAt(src, sx, sy), GetColorAt(src, sx + 1, sy),
      GetColorAt(src, sx, sy + 1), GetColorAt(src, sx + 1, sy + 1)>>

\* downscale_image_bilinear: scale = src.size / tgt.size, sxy = floor(scale * txy),
\* t = fract(scale * txy) = ((txy * src.size) % tgt.size) / tgt.size
DownscaleImageBilinear(src, tgt) ==
    LET n == tgt.size[1] * tgt.size[2]
        Reads(i) == BilinearReads(src, (TargetX(tgt, i) * src.size[1]) \div tgt.size[1],
                                  (TargetY(tgt, i) * src.size[2]) \div tgt.size[2])
        Mixed(i) == BilinearMix(Reads(i),
                                (TargetX(tgt, i) * src.size[1]) % tgt.size[1], tgt.size[1],
                                (TargetY(tgt, i) * src.size[2]) % tgt.size[2], tgt.size[2])
    IN  IF \E i \in 0..(n - 1), j \in 1..4 : ~Reads(i)[j].ok
            THEN [ok |-> FALSE, image |-> tgt]
            ELSE [ok |-> TRUE, image |-> WithPixels(tgt, [i \in 1..n |-> Mixed(i - 1)])]

-----------------------------------------------------------------------------
(* The atlas builder: src/importer/texture_builder.rs *)

\* TilesetSourceFrames::tile_count
SourceTileCount(frames) == Len(frames)

\* TilesetSourceFrames::get: the frame of a tile index, or LayoutError::OutOfRange
SourceFramesGet(frames, tile_index) ==
    IF tile_index < Len(frames)
        THEN [ok |-> TRUE, frame |-> frames[tile_index + 1]]
        ELSE [ok |-> FALSE,
              err |-> [kind |-> "OutOfRange", idx |-> tile_index, len |-> Len(frames)]]

\* A builder that is made for any format, one without a pixel size included.
NewTextureBuilder_Unchecked(size, format, mips) ==
    [ok |-> TRUE,
     builder |-> [mip_bufs |-> [m \in 1..(IF mips THEN MaxMips(size) ELSE 1) |->
                                   NewFill(MipLevelSize(size, m - 1), format)],
                  texture_data |-> <<>>,
                  tile_count |-> 0,
                  pixel_bytes |-> PixelSize(format).bytes]]

\* TextureBuilder::new: [ok, builder] or the UnsupportedFormat error
NewTextureBuilder(size, format, mips) ==
    LET ps == PixelSize(format)
        mip_levels == IF mips THEN MaxMips(size) ELSE 1
    IN  IF ~ps.ok
            THEN [ok |-> FALSE, err |-> [kind |-> "UnsupportedFormat", format |-> format]]
            ELSE [ok |-> TRUE,
                  builder |-> [mip_bufs |-> [m \in 1..mip_levels |->
                                                NewFill(MipLevelSize(size, m - 1), format)],
                               texture_data |-> <<>>,
                               tile_count |-> 0,
                               pixel_bytes |-> ps.bytes]]

\* The row copies of copy_base_image (lines 110-140): row r of the frame goes to
\* tgt[tgt_i .. tgt_j] from src[src_i .. src_j]; a slice out of range panics.
\* [ok, panic, err, base]
CopyRows(tgt, src, tile_frame, pixel_bytes) ==
    LET frame_w == tile_frame.max[1] - tile_frame.min[1]
        frame_h == tile_frame.max[2] - tile_frame.min[2]
        frame_row_bytes == frame_w * pixel_bytes
        src_row_bytes == src.size[1] * pixel_bytes
        tgt_row_bytes == tgt.size[1] * pixel_bytes
        src_i(r) == (tile_frame.min[1] + tile_frame.min[2] * src.size[1]) * pixel_bytes
                        + r * src_row_bytes
        tgt_i(r) == (tile_frame.anchor[1] + tile_frame.anchor[2] * tgt.size[1]) * pixel_bytes
                        + r * tgt_row_bytes
        RowsAt(k) == {r \in 0..(frame_h - 1) : tgt_i(r) < k /\ k <= tgt_i(r) + frame_row_bytes}
        LastRow(k) == CHOOSE r \in RowsAt(k) : \A q \in RowsAt(k) : q <= r
    IN  IF \E r \in 0..(frame_h - 1) :
              \/ tgt_i(r) + frame_row_bytes > Len(tgt.data)
              \/ src_i(r) + frame_row_bytes > Len(src.data)
            THEN [ok |-> FALSE, panic |-> TRUE, err |-> [kind |-> "none"], base |-> tgt]
            ELSE [ok |-> TRUE, panic |-> FALSE, err |-> [kind |-> "none"],
                  base |-> [tgt EXCEPT !.data =
                      [k \in 1..Len(tgt.data) |->
                          IF RowsAt(k) = {} THEN tgt.data[k]
                          ELSE src.data[src_i(LastRow(k)) + (k - tgt_i(LastRow(k)))]]]]

\* The result of copy_base_image once the frame lookup is done.
CopyBaseFrame(b, srcs, source_id, got) ==
    IF ~got.ok
        THEN [ok |-> FALSE, panic |-> FALSE, base |-> b.mip_bufs[1],
              err |-> [kind |-> "SourceLayout", source_id |-> source_id, err |-> got.err]]
        ELSE CopyRows(b.mip_bufs[1], srcs[source_id + 1].texture, got.frame, b.pixel_bytes)

\* TextureBuilder::copy_base_image: [ok, panic, err, base]
CopyBaseImage(b, srcs, tile_source) ==
    IF tile_source[1] >= Len(srcs)
        THEN [ok |-> FALSE, panic |-> FALSE, base |-> b.mip_bufs[1],
              err |-> [kind |-> "SourceOutOfRange", source_id |-> tile_source[1],
                       source_len |-> Len(srcs)]]
        ELSE CopyBaseFrame(b, srcs, tile_source[1],
                           SourceFramesGet(srcs[tile_source[1] + 1].frames, tile_source[2]))

\* The filter chosen by one pass of the loop of generate_mips for level m from
\* level m - 1.
DownscaleLevel(src, tgt) ==
    IF src.size = <<2 * tgt.size[1], 2 * tgt.size[2]>>
        THEN DownscaleImageHalf(src, tgt)
        ELSE DownscaleImageBilinear(src, tgt)

\* What one pass of the loop of generate_mips appends to texture_data.
MipLoopAppend(data, level) == data \o level.data

RECURSIVE GenerateMipsFrom(_, _)
\* The end of one pass of the loop of generate_mips: d is the downscaled level m.
MipLoopPass(b, m, d) ==
    IF ~d.ok
        THEN [ok |-> FALSE, builder |-> b]
        ELSE GenerateMipsFrom([b EXCEPT !.mip_bufs[m + 1] = d.image,
                                        !.texture_data = MipLoopAppend(@, d.image)],
                              m + 1)

\* The loop of generate_mips from level m on: [ok, builder]
GenerateMipsFrom(b, m) ==
    IF m >= Len(b.mip_bufs)
        THEN [ok |-> TRUE, builder |-> b]
        ELSE MipLoopPass(b, m, DownscaleLevel(b.mip_bufs[m], b.mip_bufs[m + 1]))

\* TextureBuilder::generate_mips
GenerateMips(b) == GenerateMipsFrom(b, 1)

RECURSIVE ConcatData(_, _)
\* The data of the images bufs[i..], one after the other.
ConcatData(bufs, i) ==
    IF i > Len(bufs) THEN <<>> ELSE bufs[i].data \o ConcatData(bufs, i + 1)

\* A write_mip_bufs that appends the base level once more behind the levels.
WriteMipBufs_BaseTwice(b) ==
    [b EXCEPT !.texture_data = @ \o ConcatData(b.mip_bufs, 1) \o b.mip_bufs[1].data]

\* TextureBuilder::write_mip_bufs
WriteMipBufs(b) == [b EXCEPT !.texture_data = @ \o ConcatData(b.mip_bufs, 1)]

\* self.tile_count += 1 on a u16. At TileIndex::MAX the addition overflows: a build
\* with overflow checks panics, a build without them wraps around.
TileCountNext(tile_count, overflow_checks) ==
    IF tile_count + 1 >= TileIndexLimit
        THEN [panic |-> overflow_checks, value |-> (tile_count + 1) % TileIndexLimit]
        ELSE [panic |-> FALSE, value |-> tile_count + 1]

\* import_tile, lines 87-89: the tile index is the count, and the count goes up.
ImportTileCounted(b, n) ==
    IF n.panic
        THEN [ok |-> FALSE, panic |-> TRUE, err |-> [kind |-> "none"], index |-> 0,
              builder |-> b]
        ELSE [ok |-> TRUE, panic |-> FALSE, err |-> [kind |-> "none"],
              index |-> b.tile_count, builder |-> [b EXCEPT !.tile_count = n.value]]

\* import_tile, lines 83-89: g is the result of generate_mips.
ImportTileMipped(g, overflow_checks) ==
    IF ~g.ok
        THEN [ok |-> FALSE, panic |-> FALSE, index |-> 0, builder |-> g.builder,
              err |-> [kind |-> "GenerateMips"]]
        ELSE ImportTileCounted(WriteMipBufs(g.builder),
                               TileCountNext(g.builder.tile_count, overflow_checks))

\* An import_tile that counts a tile whose copy failed.
ImportTileCopied_CountsFailures(b, tile_source, c, overflow_checks) ==
    IF c.panic
        THEN [ok |-> FALSE, panic |-> TRUE, err |-> [kind |-> "none"], index |-> 0,
              builder |-> b]
    ELSE IF ~c.ok
        THEN [ok |-> FALSE, panic |-> FALSE, index |-> 0,
              builder |-> [b EXCEPT !.tile_count = @ + 1],
              err |-> [kind |-> "ImportTile", tile_source |-> tile_source, err |-> c.err]]
    ELSE ImportTileMipped(GenerateMips([b EXCEPT !.mip_bufs[1] = c.base]), overflow_checks)

\* import_tile, lines 81-89: c is the result of copy_base_image.
ImportTileCopied(b, tile_source, c, overflow_checks) ==
    IF c.panic
        THEN [ok |-> FALSE, panic |-> TRUE, err |-> [kind |-> "none"], index |-> 0,
              builder |-> b]
    ELSE IF ~c.ok
        THEN [ok |-> FALSE, panic |-> FALSE, index |-> 0, builder |-> b,
              err |-> [kind |-> "ImportTile", tile_source |-> tile_source, err |-> c.err]]
    ELSE ImportTileMipped(GenerateMips([b EXCEPT !.mip_bufs[1] = c.base]), overflow_checks)

\* TextureBuilder::import_tile: [ok, panic, err, index, builder]
ImportTile(b, srcs, tile_source, overflow_checks) ==
    ImportTileCopied(b, tile_source, CopyBaseImage(b, srcs, tile_source), overflow_checks)

\* ImportTilesetError::in_group
InGroup(err, group) ==
    IF err.kind = "ImportTile"
        THEN [kind |-> "ImportGroup", group |-> group, tile_source |-> err.tile_source,
              err |-> err.err]
        ELSE err

-----------------------------------------------------------------------------
(* The import: TilesetImportData::import, src/importer/mod.rs *)

\* Bound of the import model: the tile references of the filter list and of the
\* groups together.
MaxRefs == 3

\* The names of the groups, in declaration order.
GroupOrder == <<"g1", "g2">>

\* The tile references the filter list and the groups draw from.
Refs == {<<0, 0>>, <<0, 1>>, <<1, 0>>}

\* The tile size, output format and mip setting of an import.
ImportConfigs ==
    {[tile_size |-> <<1, 1>>, format |-> "R8Unorm", mips |-> FALSE],
     [tile_size |-> <<2, 2>>, format |-> "R8Unorm", mips |-> FALSE],
     [tile_size |-> <<1, 1>>, format |-> "Rgba8Unorm", mips |-> TRUE],
     [tile_size |-> <<2, 2>>, format |-> "Rgba8Unorm", mips |-> TRUE],
     [tile_size |-> <<2, 1>>, format |-> "R8Unorm", mips |-> TRUE],
     [tile_size |-> <<3, 2>>, format |-> "Rgba8Unorm", mips |-> TRUE],
     [tile_size |-> <<1, 1>>, format |-> "Bc1RgbaUnorm", mips |-> FALSE]}

\* A source image: pixel i (row-major, from 0) has the value seed + i in its
\* colour channels and is opaque, but for a transparent first pixel.
SourceImage(size, format, seed, transparent_first) ==
    LET pb == PixelSize(format).bytes
    IN  [size |-> size, format |-> format,
         data |-> [k \in 1..(size[1] * size[2] * pb) |->
                      LET i == (k - 1) \div pb
                          c == ((k - 1) % pb) + 1
                      IN  IF c < 4 THEN seed + i
                          ELSE IF transparent_first /\ i = 0 THEN 0 ELSE 255]]

TileFrame(min, max, anchor) == [min |-> min, max |-> max, anchor |-> anchor]

\* Source A: two tiles side by side; tile 0 fills the tile, tile 1 is a frame of
\* one pixel anchored at the bottom right corner of the tile.
SourceA(size, format) ==
    [texture |-> SourceImage(<<2 * size[1], size[2]>>, format, 10, FALSE),
     frames |-> <<TileFrame(<<0, 0>>, size, <<0, 0>>),
                  TileFrame(<<size[1], 0>>, <<size[1] + 1, 1>>,
                            <<size[1] - 1, size[2] - 1>>)>>]

\* Source B: one tile, the whole image, whose first pixel is transparent.
SourceB(size, format) ==
    [texture |-> SourceImage(size, format, 50, TRUE),
     frames |-> <<TileFrame(<<0, 0>>, size, <<0, 0>>)>>]

SourceSets(size, format) ==
    {<<SourceA(size, format), SourceB(size, format)>>, <<SourceB(size, format)>>}

\* The tile references of one source, tiles ascending.
SourceTiles(srcs, source_id) ==
    [i \in 1..SourceTileCount(srcs[source_id + 1].frames) |-> <<source_id, i - 1>>]

RECURSIVE AllTilesBetween_LastSourceFirst(_, _, _)
\* A flat_map that visits the sources from the last to the first: an order the
\* claims about the import order must tell from that of AllTilesBetween.
AllTilesBetween_LastSourceFirst(srcs, lo, hi) ==
    IF lo > hi THEN <<>>
    ELSE IF lo = hi THEN SourceTiles(srcs, lo)
    ELSE AllTilesBetween_LastSourceFirst(srcs, ((lo + hi) \div 2) + 1, hi)
             \o AllTilesBetween_LastSourceFirst(srcs, lo, (lo + hi) \div 2)

RECURSIVE AllTilesBetween(_, _, _)
\* The flat_map of TileFilter::All over the sources lo .. hi: source by source,
\* the tiles of each ascending (computed by halves of lo .. hi).
AllTilesBetween(srcs, lo, hi) ==
    IF lo > hi THEN <<>>
    ELSE IF lo = hi THEN SourceTiles(srcs, lo)
    ELSE AllTilesBetween(srcs, lo, (lo + hi) \div 2)
             \o AllTilesBetween(srcs, ((lo + hi) \div 2) + 1, hi)

RECURSIVE WithoutRepeats(_)
\* A sequence without the later occurrences of its elements.
WithoutRepeats(s) ==
    IF s = <<>> THEN <<>>
    ELSE IF \E i \in 1..(Len(s) - 1) : s[i] = s[Len(s)]
        THEN WithoutRepeats(SubSeq(s, 1, Len(s) - 1))
    ELSE Append(WithoutRepeats(SubSeq(s, 1, Len(s) - 1)), s[Len(s)])

\* A filter that yields a repeated entry of its list once.
FilterSeq_SkipRepeats(filter, srcs) ==
    CASE filter.kind = "All" -> AllTilesBetween(srcs, 0, Len(srcs) - 1)
      [] filter.kind = "None" -> <<>>
      [] filter.kind = "List" -> WithoutRepeats(filter.list)

\* The tile references TileFilter::try_for_each passes to its closure, in order.
FilterSeq(filter, srcs) ==
    CASE filter.kind = "All" -> AllTilesBetween(srcs, 0, Len(srcs) - 1)
      [] filter.kind = "None" -> <<>>
      [] filter.kind = "List" -> filter.list

\* tile_dedup, a HashMap from (source, tile) to TileIndex, is a function from the
\* sources it holds to functions from their tiles to the tile index.
\* tile_dedup.insert(tile_source, tile_index)
DedupInsert(dedup, tile_source, tile_index) ==
    [s \in (DOMAIN dedup) \cup {tile_source[1]} |->
        IF s # tile_source[1] THEN dedup[s]
        ELSE [t \in (IF s \in DOMAIN dedup THEN DOMAIN dedup[s] ELSE {}) \cup {tile_source[2]} |->
                 IF t = tile_source[2] THEN tile_index ELSE dedup[s][t]]]

\* *e.get() of the occupied entry of tile_source
DedupGet(dedup, tile_source) == dedup[tile_source[1]][tile_source[2]]

\* An entry that is never occupied: an import without the lookup, which the
\* claims about copies must tell from DedupHit.
DedupHit_Never(dedup, tile_source) == FALSE

\* tile_dedup.entry(tile_source) is Entry::Occupied
DedupHit(dedup, tile_source) ==
    /\ tile_source[1] \in DOMAIN dedup
    /\ tile_source[2] \in DOMAIN dedup[tile_source[1]]

\* The part of a flat sequence labelled j by a nondecreasing labelling.
Part(s, lab, j) ==
    SubSeq(s, 1 + Cardinality({i \in 1..Len(s) : lab[i] < j}),
           Cardinality({i \in 1..Len(s) : lab[i] <= j}))

\* The state when import has validated its sources (line 226).
ImportStart ==
    /\ pc = "new"
    /\ texture_builder = [mip_bufs |-> <<>>, texture_data |-> <<>>, tile_count |-> 0,
                          pixel_bytes |-> 0]
    /\ tile_dedup = <<>>
    /\ cursor = [fi |-> 0, gi |-> 0, gj |-> 0]
    /\ out_groups = [done |-> <<>>, open |-> <<>>]
    /\ result = [kind |-> "none"]
    /\ imported = <<>>

ImportInit ==
    /\ GroupsStart
    /\ FileIdle
    /\ MipIdle
    /\ LayoutIdle
    /\ ImportStart
    /\ \E cfg \in ImportConfigs :
        /\ tile_size = cfg.tile_size
        /\ texture_format = cfg.format
        /\ generate_mips = cfg.mips
        /\ sources \in SourceSets(cfg.tile_size, cfg.format)
    /\ \E s \in SeqsUpTo(Refs, MaxRefs), kind \in {"All", "None", "List"},
          ng \in 0..Len(GroupOrder) :
        \E lab \in [1..Len(s) -> 0..ng] :
            /\ \A i, j \in 1..Len(s) : i <= j => lab[i] <= lab[j]
            /\ kind # "List" => \A i \in 1..Len(s) : lab[i] # 0
            /\ tile_filter = [kind |-> kind, list |-> Part(s, lab, 0)]
            /\ tile_groups = [j \in 1..ng |-> [name |-> GroupOrder[j], tiles |-> Part(s, lab, j)]]

\* let mut texture_builder = TextureBuilder::new(..)?
NewBuilder ==
    /\ pc = "new"
    /\ \E r \in {NewTextureBuilder(tile_size, texture_format, generate_mips)} :
           IF r.ok
               THEN /\ texture_builder' = r.builder
                    /\ pc' = "filter"
                    /\ UNCHANGED result
               ELSE /\ pc' = "error"
                    /\ result' = r.err
                    /\ UNCHANGED texture_builder
    /\ UNCHANGED <<tile_size, tile_filter, tile_groups, sources, texture_format, generate_mips,
                   tile_dedup, cursor, out_groups, imported, groupVars, fileVars, mipVars, layoutVars>>

\* One call of the closure of tile_filter.try_for_each (lines 231-235).
FilterStep ==
    /\ pc = "filter"
    /\ cursor.fi < Len(FilterSeq(tile_filter, sources))
    /\ \E overflow_checks \in BOOLEAN,
          tile_source \in {FilterSeq(tile_filter, sources)[cursor.fi + 1]} :
        \E r \in {ImportTile(texture_builder, sources, tile_source, overflow_checks)} :
            /\ texture_builder' = r.builder
            /\ IF r.ok
                   THEN /\ tile_dedup' = DedupInsert(tile_dedup, tile_source, r.index)
                        /\ cursor' = [cursor EXCEPT !.fi = @ + 1]
                        /\ imported' = Append(imported, [ref |-> tile_source, index |-> r.index])
                        /\ UNCHANGED <<pc, result>>
                   ELSE /\ pc' = IF r.panic THEN "panic" ELSE "error"
                        /\ result' = r.err
                        /\ UNCHANGED <<tile_dedup, cursor, imported>>
    /\ UNCHANGED <<tile_size, tile_filter, tile_groups, sources, texture_format, generate_mips,
                   out_groups, groupVars, fileVars, mipVars, layoutVars>>

\* try_for_each returned Ok: the groups are next.
FilterDone ==
    /\ pc = "filter"
    /\ cursor.fi = Len(FilterSeq(tile_filter, sources))
    /\ pc' = "groups"
    /\ UNCHANGED <<tile_size, tile_filter, tile_groups, sources, texture_format, generate_mips,
                   texture_builder, tile_dedup, cursor, out_groups, result, imported, groupVars, fileVars, mipVars, layoutVars>>

\* A group member that tile_dedup already holds (Entry::Occupied, line 245).
GroupMemberKnown ==
    /\ pc = "groups"
    /\ cursor.gi < Len(tile_groups)
    /\ cursor.gj < Len(tile_groups[cursor.gi + 1].tiles)
    /\ LET tile_source == tile_groups[cursor.gi + 1].tiles[cursor.gj + 1]
       IN  /\ DedupHit(tile_dedup, tile_source)
           /\ out_groups' = [out_groups EXCEPT !.open = Append(@, DedupGet(tile_dedup, tile_source))]
    /\ cursor' = [cursor EXCEPT !.gj = @ + 1]
    /\ UNCHANGED <<tile_size, tile_filter, tile_groups, sources, texture_format, generate_mips,
                   pc, texture_builder, tile_dedup, result, imported, groupVars, fileVars, mipVars, layoutVars>>

\* A group member that tile_dedup does not hold (Entry::Vacant, lines 246-250).
GroupMemberImport ==
    /\ pc = "groups"
    /\ cursor.gi < Len(tile_groups)
    /\ cursor.gj < Len(tile_groups[cursor.gi + 1].tiles)
    /\ \E overflow_checks \in BOOLEAN,
          tile_source \in {tile_groups[cursor.gi + 1].tiles[cursor.gj + 1]} :
        /\ ~DedupHit(tile_dedup, tile_source)
        /\ \E r \in {ImportTile(texture_builder, sources, tile_source, overflow_checks)} :
            /\ texture_builder' = r.builder
            /\ IF r.ok
                   THEN /\ tile_dedup' = DedupInsert(tile_dedup, tile_source, r.index)
                        /\ out_groups' = [out_groups EXCEPT !.open = Append(@, r.index)]
                        /\ cursor' = [cursor EXCEPT !.gj = @ + 1]
                        /\ imported' = Append(imported, [ref |-> tile_source, index |-> r.index])
                        /\ UNCHANGED <<pc, result>>
                   ELSE /\ pc' = IF r.panic THEN "panic" ELSE "error"
                        /\ result' = InGroup(r.err, tile_groups[cursor.gi + 1].name)
                        /\ UNCHANGED <<tile_dedup, out_groups, cursor, imported>>
    /\ UNCHANGED <<tile_size, tile_filter, tile_groups, sources, texture_format, generate_mips,
                   groupVars, fileVars, mipVars, layoutVars>>

\* The members of a group are collected (line 252): the group is pushed.
GroupDone ==
    /\ pc = "groups"
    /\ cursor.gi < Len(tile_groups)
    /\ cursor.gj = Len(tile_groups[cursor.gi + 1].tiles)
    /\ out_groups' = [done |-> Append(out_groups.done,
                                      [name |-> tile_groups[cursor.gi + 1].name,
                                       tiles |-> out_groups.open]),
                      open |-> <<>>]
    /\ cursor' = [cursor EXCEPT !.gi = @ + 1, !.gj = 0]
    /\ UNCHANGED <<tile_size, tile_filter, tile_groups, sources, texture_format, generate_mips,
                   pc, texture_builder, tile_dedup, result, imported, groupVars, fileVars, mipVars, layoutVars>>

\* Ok(TilesetFile { .. }) (lines 257-264)
Finish ==
    /\ pc = "groups"
    /\ cursor.gi = Len(tile_groups)
    /\ pc' = "done"
    /\ result' = [kind |-> "TilesetFile",
                  tile_size |-> tile_size,
                  tile_count |-> texture_builder.tile_count,
                  tile_groups |-> out_groups.done,
                  texture_format |-> texture_builder.mip_bufs[1].format,
                  texture_mips |-> Len(texture_builder.mip_bufs),
                  texture_data |-> texture_builder.texture_data]
    /\ UNCHANGED <<tile_size, tile_filter, tile_groups, sources, texture_format, generate_mips,
                   texture_builder, tile_dedup, cursor, out_groups, imported, groupVars, fileVars, mipVars, layoutVars>>

\* The steps of import after the builder is made.
ImportSteps ==
    \/ FilterStep
    \/ FilterDone
    \/ GroupMemberKnown
    \/ GroupMemberImport
    \/ GroupDone
    \/ Finish

ImportNext == NewBuilder \/ ImportSteps

Spec == ImportInit /\ [][ImportNext]_vars

-----------------------------------------------------------------------------
(* The data volume of a tileset file: src/format.rs *)

\* The check with the comparison of the lengths left out.
ValidateDataVolume_FormatOnly(format, size, layers, mips, data) ==
    PixelSize(format).ok

\* validate_data_volume: texture_data holds `layers` layers of `mips` mip levels
\* of a texture of this size and format.
ValidateDataVolume(format, size, layers, mips, data) ==
    /\ PixelSize(format).ok
    /\ SumLevels(size, mips) * layers * PixelSize(format).bytes = Len(data)

-----------------------------------------------------------------------------
(* Claims about the import *)

\* C1: every TilesetFile a successful import returns has texture_data of
\* tile_count x (the sum over the mip levels 0..texture_mips of the level's pixel
\* count x the pixel byte size) bytes, that is, it passes validate_data_volume.
C1_ImportDataVolume ==
    pc = "done" =>
        ValidateDataVolume(result.texture_format, result.tile_size, result.tile_count,
                           result.texture_mips, result.texture_data)

\* The number of positions of a sequence that hold x.
Occurrences(s, x) == Cardinality({i \in DOMAIN s : s[i] = x})

\* The tile references the filter yields, and those the groups name.
FilterRefs ==
    {FilterSeq(tile_filter, sources)[i] : i \in DOMAIN FilterSeq(tile_filter, sources)}

GroupRefs ==
    UNION {{tile_groups[g].tiles[j] : j \in DOMAIN tile_groups[g].tiles} : g \in DOMAIN tile_groups}

\* The number of tiles of the output copied from the reference r.
Copies(r) == Cardinality({i \in DOMAIN imported : imported[i].ref = r})

\* The tile indices the copies of r were given.
CopyIndices(r) == {imported[i].index : i \in {k \in DOMAIN imported : imported[k].ref = r}}

\* The tile index of the last copy of r.
LastIndexOf(r) ==
    imported[CHOOSE i \in DOMAIN imported :
                 /\ imported[i].ref = r
                 /\ \A k \in DOMAIN imported : imported[k].ref = r => k <= i].index

\* The tile indices the references to r in the groups became in the output.
ResolvedAs(r) ==
    {result.tile_groups[x[1]].tiles[x[2]] :
        x \in {y \in (DOMAIN tile_groups) \X (1..MaxRefs) :
                  /\ y[2] \in DOMAIN tile_groups[y[1]].tiles
                  /\ tile_groups[y[1]].tiles[y[2]] = r}}

\* C2 as stated: in a successful import each distinct reference of the filter or
\* of a group, however many times it is referenced (repeats in an explicit filter
\* list included), is copied exactly once and every reference to it resolves to
\* the same tile index.
C2_EachRefCopiedOnce ==
    pc = "done" =>
        \A r \in FilterRefs \cup GroupRefs :
            /\ Copies(r) = 1
            /\ Cardinality(CopyIndices(r) \cup ResolvedAs(r)) = 1

\* C2 as the code has it: a reference the filter yields is copied once for each
\* time the filter yields it (an explicit list may repeat it), a reference only
\* the groups name is copied exactly once, and every reference to it in a group
\* resolves to one tile index, that of its last copy.
C2_CopiedOncePerFilterEntry ==
    pc = "done" =>
        \A r \in FilterRefs \cup GroupRefs :
            /\ Copies(r) = Max(1, Occurrences(FilterSeq(tile_filter, sources), r))
            /\ ResolvedAs(r) \subseteq {LastIndexOf(r)}

\* A successful import whose filter list repeats a reference that a group names too.
C2_Witness ==
    /\ pc = "done"
    /\ tile_filter.kind = "List"
    /\ \E r \in GroupRefs : Occurrences(tile_filter.list, r) = 2 /\ ResolvedAs(r) # {}

\* The order of tile references: by source, then by tile index.
RefLess(p, q) == p[1] < q[1] \/ (p[1] = q[1] /\ p[2] < q[2])

\* Every tile of every source.
AllSourceTiles ==
    UNION {{<<s - 1, t - 1>> : t \in DOMAIN sources[s].frames} : s \in DOMAIN sources}

\* The tiles of the sources in ascending order.
AscendingTiles ==
    [k \in 1..Cardinality(AllSourceTiles) |->
        CHOOSE p \in AllSourceTiles :
            Cardinality({q \in AllSourceTiles : RefLess(q, p)}) = k - 1]

\* The order the filter gives: nothing, the tiles ascending, or the list.
FilterOrder ==
    CASE tile_filter.kind = "None" -> <<>>
      [] tile_filter.kind = "All" -> AscendingTiles
      [] tile_filter.kind = "List" -> tile_filter.list

RECURSIVE GroupMembersFrom(_)
\* The members of the groups g, g + 1, .. in declaration order and list order.
GroupMembersFrom(g) ==
    IF g > Len(tile_groups) THEN <<>> ELSE tile_groups[g].tiles \o GroupMembersFrom(g + 1)

RECURSIVE SkipAssigned(_, _)
\* The sequence s without the references already assigned, each kept once.
SkipAssigned(s, assigned) ==
    IF s = <<>> THEN <<>>
    ELSE IF Head(s) \in assigned THEN SkipAssigned(Tail(s), assigned)
    ELSE <<Head(s)>> \o SkipAssigned(Tail(s), assigned \cup {Head(s)})

\* The order of import: the filter, then the group members not yet assigned.
ExpectedOrder ==
    FilterOrder \o SkipAssigned(GroupMembersFrom(1), {FilterOrder[i] : i \in DOMAIN FilterOrder})

FrameOf(ref) == sources[ref[1] + 1].frames[ref[2] + 1]

\* The pixel (x, y) of the tile lies in the rectangle [anchor, anchor + frame size).
InFrame(f, x, y) ==
    /\ f.anchor[1] <= x /\ x < f.anchor[1] + (f.max[1] - f.min[1])
    /\ f.anchor[2] <= y /\ y < f.anchor[2] + (f.max[2] - f.min[2])

\* The base level of tile k in the output: write_mip_bufs ends the bytes of each
\* tile with all its levels, the base level first.
BaseLevelOf(k) ==
    LET pb == PixelSize(result.texture_format).bytes
        all == SumLevels(tile_size, result.texture_mips) * pb
        stride == Len(result.texture_data) \div result.tile_count
    IN  SubSeq(result.texture_data, (k + 1) * stride - all + 1,
               (k + 1) * stride - all + tile_size[1] * tile_size[2] * pb)

\* C10: for every imported tile whose frame is smaller than the tile, the base
\* level pixels of the tile in the output outside [anchor, anchor + frame size)
\* are zero, whichever tiles were imported before it.
C10_PaddingIsZero ==
    pc = "done" =>
        \A i \in DOMAIN imported :
            \A x \in 0..(tile_size[1] - 1), y \in 0..(tile_size[2] - 1),
               c \in 1..PixelSize(result.texture_format).bytes :
                ~InFrame(FrameOf(imported[i].ref), x, y) =>
                    BaseLevelOf(imported[i].index)[
                        (x + y * tile_size[1]) * PixelSize(result.texture_format).bytes + c] = 0

\* The byte c of the pixel (x, y) of a tile that the frame of a reference puts
\* there: the pixel of the source at frame.min + (x, y) - anchor.
SourceByte(ref, x, y, c) ==
    PixelAt(sources[ref[1] + 1].texture,
            FrameOf(ref).min[1] + x - FrameOf(ref).anchor[1],
            FrameOf(ref).min[2] + y - FrameOf(ref).anchor[2])[c]

\* C19: after a successful import with a List filter, the tile stored at the
\* tile index k holds the pixels of the tile that the k-th entry of the list
\* names, for every k below the length of the list, repeated entries included.
C19_ListPositionsAreIndices ==
    (pc = "done" /\ tile_filter.kind = "List") =>
        \A k \in 0..(Len(tile_filter.list) - 1) :
            /\ k < result.tile_count
            /\ \A x \in 0..(tile_size[1] - 1), y \in 0..(tile_size[2] - 1),
                  c \in 1..PixelSize(result.texture_format).bytes :
                   InFrame(FrameOf(tile_filter.list[k + 1]), x, y) =>
                       BaseLevelOf(k)[(x + y * tile_size[1])
                                          * PixelSize(result.texture_format).bytes + c]
                           = SourceByte(tile_filter.list[k + 1], x, y, c)

\* A list of three entries whose first and last name the same tile, and whose
\* second names another, was imported.
C19_Witness ==
    /\ pc = "done"
    /\ tile_filter.kind = "List"
    /\ Len(tile_filter.list) = 3
    /\ tile_filter.list[1] = tile_filter.list[3]
    /\ tile_filter.list[1] # tile_filter.list[2]
    /\ result.tile_count = 3

-----------------------------------------------------------------------------
(* Claims about the atlas builder *)

\* The bytes of one tile without mips: width x height x bytes per pixel.
BaseBytes == tile_size[1] * tile_size[2] * PixelSize(texture_format).bytes

\* C22: with mip generation disabled the builder has one mip level, and after n
\* successful import_tile calls texture_data holds n x tile width x tile height
\* x bytes per pixel bytes; the file returned reports texture_mips = 1.
C22_NoMipsVolume ==
    (~generate_mips /\ pc \in {"filter", "groups", "done"}) =>
        /\ Len(texture_builder.mip_bufs) = 1
        /\ texture_builder.tile_count = Len(imported)
        /\ Len(texture_builder.texture_data) = Len(imported) * BaseBytes
        /\ pc = "done" =>
              /\ result.texture_mips = 1
              /\ result.tile_count = Len(imported)
              /\ Len(result.texture_data) = result.tile_count * BaseBytes

\* Three tiles of 2x2 pixels were imported without mips.
C22_Witness ==
    /\ ~generate_mips
    /\ pc = "done"
    /\ tile_size = <<2, 2>>
    /\ result.tile_count = 3
    /\ Len(result.texture_data) = 12

InGroupPass == cursor.fi = Len(FilterSeq(tile_filter, sources))

\* The tile reference import_tile is called with next: the cursors stay on it
\* when the call fails.
CurrentRef ==
    IF InGroupPass
        THEN tile_groups[cursor.gi + 1].tiles[cursor.gj + 1]
        ELSE FilterSeq(tile_filter, sources)[cursor.fi + 1]

\* C25: every per-tile error (source id out of range, layout error, texture
\* access fault in the mip generation) ends the import with an error that names
\* the tile reference that raised it and, for a member of a group, the group.
C25_ErrorNamesTileAndGroup ==
    (pc = "error" /\ result.kind # "UnsupportedFormat") =>
        /\ result.kind \in {"ImportTile", "ImportGroup"}
        /\ result.tile_source = CurrentRef
        /\ result.kind = "ImportGroup" <=> InGroupPass
        /\ InGroupPass => result.group = tile_groups[cursor.gi + 1].name

\* The tile reference names a source, and a tile of it.
SourceInRange(ref) == ref[1] < Len(sources)
TileInRange(ref) == ref[2] < SourceTileCount(sources[ref[1] + 1].frames)

\* C26: import_tile with a source id that is not below the number of sources
\* fails with SourceOutOfRange of that id and that number; with a source in
\* range and a tile index that is not below its tile count it fails with the
\* layout error OutOfRange under the source id; in both cases the builder
\* (tile_count, output buffer, base mip buffer) is as it was before the call.
C26_ReferenceErrors ==
    [][(pc \in {"filter", "groups"}
            /\ (texture_builder' # texture_builder \/ pc' \in {"error", "panic"})) =>
          IF ~SourceInRange(CurrentRef)
              THEN /\ pc' = "error"
                   /\ result'.tile_source = CurrentRef
                   /\ result'.err = [kind |-> "SourceOutOfRange",
                                     source_id |-> CurrentRef[1],
                                     source_len |-> Len(sources)]
                   /\ texture_builder' = texture_builder
          ELSE IF ~TileInRange(CurrentRef)
              THEN /\ pc' = "error"
                   /\ result'.tile_source = CurrentRef
                   /\ result'.err =
                          [kind |-> "SourceLayout", source_id |-> CurrentRef[1],
                           err |-> [kind |-> "OutOfRange", idx |-> CurrentRef[2],
                                    len |-> SourceTileCount(sources[CurrentRef[1] + 1].frames)]]
                   /\ texture_builder' = texture_builder
          ELSE TRUE]_vars

\* A group member beyond the tiles of its source failed after a tile was imported.
C26_Witness ==
    /\ pc = "error"
    /\ result.kind = "ImportGroup"
    /\ result.err.kind = "SourceLayout"
    /\ result.err.err.kind = "OutOfRange"
    /\ texture_builder.tile_count >= 1
    /\ texture_builder.texture_data # <<>>

\* The bytes of one tile with all its levels, and the region of tile k when
\* the tiles lie one after the other.
TileBytes == SumLevels(tile_size, result.texture_mips) * PixelSize(result.texture_format).bytes
TileRegion(k) == SubSeq(result.texture_data, k * TileBytes + 1, (k + 1) * TileBytes)

\* Level m of tile k in its region: behind the levels 0 .. m - 1.
LevelOfTile(k, m) ==
    [size |-> MipLevelSize(tile_size, m), format |-> result.texture_format,
     data |-> SubSeq(TileRegion(k),
                     SumLevels(tile_size, m) * PixelSize(result.texture_format).bytes + 1,
                     SumLevels(tile_size, m + 1) * PixelSize(result.texture_format).bytes)]

\* C27: the output buffer holds, for every tile k, one region behind those of
\* the tiles 0 .. k - 1: the base level, then the levels 1, 2, .. down to the
\* smallest, each once (each level the downscale of the one before it).
C27_LevelsOncePerTile ==
    pc = "done" =>
        /\ Len(result.texture_data) = result.tile_count * TileBytes
        /\ \A k \in 0..(result.tile_count - 1) :
               /\ \A x \in 0..(tile_size[1] - 1), y \in 0..(tile_size[2] - 1) :
                      InFrame(FrameOf(imported[k + 1].ref), x, y) =>
                          PixelAt(LevelOfTile(k, 0), x, y)
                              = PixelAt(sources[imported[k + 1].ref[1] + 1].texture,
                                        FrameOf(imported[k + 1].ref).min[1] + x
                                            - FrameOf(imported[k + 1].ref).anchor[1],
                                        FrameOf(imported[k + 1].ref).min[2] + y
                                            - FrameOf(imported[k + 1].ref).anchor[2])
               /\ \A m \in 1..(result.texture_mips - 1) :
                      LevelOfTile(k, m).data =
                          DownscaleLevel(LevelOfTile(k, m - 1),
                                         NewFill(MipLevelSize(tile_size, m),
                                                 result.texture_format)).image.data

\* C28: with mip generation on, for every tile size and every level m >= 1 the
\* coordinates the chosen filter samples lie inside level m - 1: import_tile
\* never fails with the texture access error of the mip generation.
C28_MipReadsInBounds ==
    ~(pc = "error" /\ result.kind = "GenerateMips")

-----------------------------------------------------------------------------
(* The import near the capacity of TileIndex *)

\* Bounds of the capacity model: the number of tiles still to import when it
\* starts before tile_count reaches TileIndex::MAX + 1, and the tiles of a source.
CapWindow == 2
CapSourceTiles == 256

\* A source of 1x1 R8Unorm tiles in a row: tile i is pixel i.
CapacitySource(tiles) ==
    [texture |-> [size |-> <<tiles, 1>>, format |-> "R8Unorm",
                  data |-> [k \in 1..tiles |-> k % 256]],
     frames |-> [i \in 1..tiles |-> TileFrame(<<i - 1, 0>>, <<i, 1>>, <<0, 0>>)]]

\* Sources of CapSourceTiles tiles each, but for the last, with `total` tiles in all.
CapacitySources(total) ==
    [s \in 1..(((total - 1) \div CapSourceTiles) + 1) |->
        IF s <= (total - 1) \div CapSourceTiles
            THEN CapacitySource(CapSourceTiles)
            ELSE CapacitySource(total - ((total - 1) \div CapSourceTiles) * CapSourceTiles)]

\* The byte a frame of one pixel copies from an R8Unorm source.
FramePixel(src, i) ==
    src.texture.data[src.frames[i].min[1] + src.frames[i].min[2] * src.texture.size[1] + 1]

\* The bytes of the tiles of one source.
SourcePixels(src) == [i \in 1..Len(src.frames) |-> FramePixel(src, i)]

RECURSIVE PixelsBetween(_, _, _)
\* The bytes of the tiles of the sources srcs[lo .. hi], in the order of the All filter.
PixelsBetween(srcs, lo, hi) ==
    IF lo > hi THEN <<>>
    ELSE IF lo = hi THEN SourcePixels(srcs[lo])
    ELSE PixelsBetween(srcs, lo, (lo + hi) \div 2)
             \o PixelsBetween(srcs, ((lo + hi) \div 2) + 1, hi)

RECURSIVE TilesBetween(_, _, _)
\* The number of tiles of the sources srcs[lo .. hi].
TilesBetween(srcs, lo, hi) ==
    IF lo > hi THEN 0
    ELSE IF lo = hi THEN Len(srcs[lo].frames)
    ELSE TilesBetween(srcs, lo, (lo + hi) \div 2)
             + TilesBetween(srcs, ((lo + hi) \div 2) + 1, hi)

\* tile_dedup when the first n tiles of the sources have the indices 0 .. n - 1;
\* before[s] is the number of tiles of the sources before source s.
FirstDedup(srcs, n, before) ==
    [s \in {x - 1 : x \in {y \in DOMAIN srcs : before[y] < n}} |->
        [t \in 0..(Min(n - before[s + 1], Len(srcs[s + 1].frames)) - 1) |-> before[s + 1] + t]]

\* The builder after n >= 1 imports of 1x1 R8Unorm tiles whose bytes are `pixels`.
FirstBuilder(n, pixels) ==
    [mip_bufs |-> <<[size |-> <<1, 1>>, format |-> "R8Unorm", data |-> <<pixels[n]>>]>>,
     texture_data |-> pixels,
     tile_count |-> n,
     pixel_bytes |-> 1]

\* The state of import after n >= 1 calls of the closure of try_for_each under
\* the All filter, for 1x1 R8Unorm tiles without mips: the first n tiles of the
\* sources, one byte each, with the indices 0 .. n - 1. The history `imported`
\* starts after the first `since` of them.
AllImportForm(n, since) ==
    /\ pc = "filter"
    /\ \E pixels \in {SubSeq(PixelsBetween(sources, 1, Len(sources)), 1, n)} :
           texture_builder = FirstBuilder(n, pixels)
    /\ \E before \in {[s \in DOMAIN sources |-> TilesBetween(sources, 1, s - 1)]} :
           tile_dedup = FirstDedup(sources, n, before)
    /\ cursor = [fi |-> n, gi |-> 0, gj |-> 0]
    /\ out_groups = [done |-> <<>>, open |-> <<>>]
    /\ result = [kind |-> "none"]
    /\ imported = [i \in 1..(n - since) |->
                      [ref |-> FilterSeq(tile_filter, sources)[since + i], index |-> since + i - 1]]

\* The states of Spec in the loop of such an import have this form.
AllImportFormReached ==
    (/\ pc = "filter"
     /\ tile_size = <<1, 1>> /\ texture_format = "R8Unorm" /\ ~generate_mips
     /\ tile_filter.kind = "All"
     /\ cursor.fi >= 1)
        => AllImportForm(cursor.fi, 0)

\* An import of all the tiles of sources that have TileIndex::MAX + 1 tiles or
\* so, CapWindow tiles before tile_count reaches TileIndex::MAX + 1, with up to
\* two groups of up to one tile: the first tile, or a tile no source has.
CapacityInit ==
    /\ GroupsStart
    /\ FileIdle
    /\ MipIdle
    /\ LayoutIdle
    /\ tile_size = <<1, 1>> /\ texture_format = "R8Unorm" /\ generate_mips = FALSE
    /\ tile_filter = [kind |-> "All", list |-> <<>>]
    /\ \E total \in (TileIndexLimit - CapWindow)..(TileIndexLimit + 1) :
           sources = CapacitySources(total)
    /\ \E ng \in 0..Len(GroupOrder) :
           \E ts \in [1..ng -> SeqsUpTo({<<0, 0>>, <<0, CapSourceTiles + 1>>}, 1)] :
               tile_groups = [j \in 1..ng |-> [name |-> GroupOrder[j], tiles |-> ts[j]]]
    /\ AllImportForm(TileIndexLimit - CapWindow, TileIndexLimit - CapWindow)

SpecCapacity == CapacityInit /\ [][ImportSteps]_vars

\* No other tile reference of tile_dedup has the tile index of the i-th tile imported.
IndexIsNew(i) ==
    \A s \in DOMAIN tile_dedup :
        \A t \in DOMAIN tile_dedup[s] :
            tile_dedup[s][t] = imported[i].index => <<s, t>> = imported[i].ref

\* C9: a build that would assign more tiles than TileIndex can count aborts with
\* an error value: the import never panics and the tile counter never wraps, so
\* tile_count is always the number of tiles in texture_data and no imported tile
\* is given the tile index of another.
C9_CapacityIsAnError ==
    /\ pc # "panic"
    /\ texture_builder.tile_count
           * SumLevels(tile_size, Len(texture_builder.mip_bufs)) * texture_builder.pixel_bytes
         = Len(texture_builder.texture_data)
    /\ \A i \in DOMAIN imported : IndexIsNew(i)

-----------------------------------------------------------------------------
(* The tileset file: src/format.rs. The encoding is that of bincode with        *)
(* config::standard(); the values of the model are below 2^31.                  *)

\* The bytes of u in n bytes, little endian.
LittleEndian(u, n) == [i \in 1..n |-> (u \div (256 ^ (i - 1))) % 256]

RECURSIVE FromLittleEndian(_)
FromLittleEndian(bs) == IF bs = <<>> THEN 0 ELSE Head(bs) + 256 * FromLittleEndian(Tail(bs))

\* An integer that takes one byte whatever its value: an encoding the round trip
\* of a file must tell from EncodeVarint.
EncodeVarint_SingleByte(u) == <<u % 256>>

\* The variable length encoding of an unsigned integer: one byte below 251, else
\* a marker (251: u16, 252: u32) and the value.
EncodeVarint(u) ==
    IF u < 251 THEN <<u>>
    ELSE IF u < 65536 THEN <<251>> \o LittleEndian(u, 2)
    ELSE <<252>> \o LittleEndian(u, 4)

\* A failed decode at position pos.
DecodeFail(pos) == [ok |-> FALSE, value |-> 0, next |-> pos]

\* An integer of n bytes after the first pos bytes: [ok, value, next]
DecodeFixed(bytes, pos, n) ==
    IF pos + n > Len(bytes) THEN DecodeFail(pos)
    ELSE [ok |-> TRUE, value |-> FromLittleEndian(SubSeq(bytes, pos + 1, pos + n)),
          next |-> pos + n]

\* The decoding of an unsigned integer of `width` bytes (2: u16, 4: u32, 8: u64
\* and usize): a marker of a wider type is an error.
DecodeVarint(bytes, pos, width) ==
    IF pos >= Len(bytes) THEN DecodeFail(pos)
    ELSE IF bytes[pos + 1] < 251 THEN [ok |-> TRUE, value |-> bytes[pos + 1], next |-> pos + 1]
    ELSE IF bytes[pos + 1] = 251 THEN DecodeFixed(bytes, pos + 1, 2)
    ELSE IF bytes[pos + 1] = 252 /\ width >= 4 THEN DecodeFixed(bytes, pos + 1, 4)
    ELSE IF bytes[pos + 1] = 253 /\ width >= 8 THEN DecodeFixed(bytes, pos + 1, 8)
    ELSE DecodeFail(pos)

\* Vec<u8>: the length and the bytes as they are.
EncodeBytes(bs) == EncodeVarint(Len(bs)) \o bs

\* The bytes after a decoded length n: [ok, value, next]
DecodeCounted(bytes, pos, n) ==
    IF ~n.ok \/ n.next + n.value > Len(bytes) THEN DecodeFail(pos)
    ELSE [ok |-> TRUE, value |-> SubSeq(bytes, n.next + 1, n.next + n.value),
          next |-> n.next + n.value]

DecodeBytes(bytes, pos) == DecodeCounted(bytes, pos, DecodeVarint(bytes, pos, 8))

\* A String is its UTF-8 bytes; the names of the model are ASCII, which is valid
\* UTF-8 exactly when every byte is below 128.
DecodeUtf8(pos, r) ==
    IF r.ok /\ \A i \in DOMAIN r.value : r.value[i] < 128 THEN r ELSE DecodeFail(pos)

DecodeString(bytes, pos) == DecodeUtf8(pos, DecodeBytes(bytes, pos))

RECURSIVE EncodeTilesFrom(_, _)
EncodeTilesFrom(tiles, i) ==
    IF i > Len(tiles) THEN <<>> ELSE EncodeVarint(tiles[i]) \o EncodeTilesFrom(tiles, i + 1)

\* Vec<TileIndex>
EncodeTiles(tiles) == EncodeVarint(Len(tiles)) \o EncodeTilesFrom(tiles, 1)

RECURSIVE DecodeTilesFrom(_, _, _)
\* The end of the decoding of `count` tile indices: h is the first, t the rest.
DecodeTilesJoin(pos, h, t) ==
    IF ~t.ok THEN DecodeFail(pos)
    ELSE [ok |-> TRUE, value |-> <<h.value>> \o t.value, next |-> t.next]

DecodeTilesNext(bytes, pos, count, h) ==
    IF ~h.ok THEN DecodeFail(pos)
    ELSE DecodeTilesJoin(pos, h, DecodeTilesFrom(bytes, h.next, count - 1))

DecodeTilesFrom(bytes, pos, count) ==
    IF count = 0 THEN [ok |-> TRUE, value |-> <<>>, next |-> pos]
    ELSE DecodeTilesNext(bytes, pos, count, DecodeVarint(bytes, pos, 2))

DecodeTilesCounted(bytes, pos, n) ==
    IF ~n.ok THEN DecodeFail(pos) ELSE DecodeTilesFrom(bytes, n.next, n.value)

DecodeTiles(bytes, pos) == DecodeTilesCounted(bytes, pos, DecodeVarint(bytes, pos, 8))

RECURSIVE EncodeGroupsFrom(_, _)
EncodeGroupsFrom(gs, i) ==
    IF i > Len(gs) THEN <<>>
    ELSE EncodeBytes(gs[i].name) \o EncodeTiles(gs[i].tiles) \o EncodeGroupsFrom(gs, i + 1)

\* TileGroupData = Vec<(String, Vec<TileIndex>)>
EncodeGroups(gs) == EncodeVarint(Len(gs)) \o EncodeGroupsFrom(gs, 1)

RECURSIVE DecodeGroupsFrom(_, _, _)
DecodeGroupsJoin(pos, name, tiles, rest) ==
    IF ~rest.ok THEN DecodeFail(pos)
    ELSE [ok |-> TRUE, next |-> rest.next,
          value |-> <<[name |-> name.value, tiles |-> tiles.value]>> \o rest.value]

DecodeGroupsTiles(bytes, pos, count, name, tiles) ==
    IF ~tiles.ok THEN DecodeFail(pos)
    ELSE DecodeGroupsJoin(pos, name, tiles, DecodeGroupsFrom(bytes, tiles.next, count - 1))

DecodeGroupsName(bytes, pos, count, name) ==
    IF ~name.ok THEN DecodeFail(pos)
    ELSE DecodeGroupsTiles(bytes, pos, count, name, DecodeTiles(bytes, name.next))

DecodeGroupsFrom(bytes, pos, count) ==
    IF count = 0 THEN [ok |-> TRUE, value |-> <<>>, next |-> pos]
    ELSE DecodeGroupsName(bytes, pos, count, DecodeString(bytes, pos))

DecodeGroupsCounted(bytes, pos, n) ==
    IF ~n.ok THEN DecodeFail(pos) ELSE DecodeGroupsFrom(bytes, n.next, n.value)

DecodeGroups(bytes, pos) == DecodeGroupsCounted(bytes, pos, DecodeVarint(bytes, pos, 8))

\* The name a TextureFormat is serialized as (#[bincode(with_serde)]): "r8unorm",
\* "rgba8unorm", "bc1-rgba-unorm" in UTF-8.
FormatName(format) ==
    CASE format = "R8Unorm" -> <<114, 56, 117, 110, 111, 114, 109>>
      [] format = "Rgba8Unorm" -> <<114, 103, 98, 97, 56, 117, 110, 111, 114, 109>>
      [] format = "Bc1RgbaUnorm" ->
             <<98, 99, 49, 45, 114, 103, 98, 97, 45, 117, 110, 111, 114, 109>>

\* The TextureFormat of a decoded name; a name of no format is an error.
DecodeFormatName(pos, r) ==
    IF r.ok /\ \E f \in TextureFormats : FormatName(f) = r.value
        THEN [r EXCEPT !.value = CHOOSE f \in TextureFormats : FormatName(f) = r.value]
        ELSE DecodeFail(pos)

DecodeFormat(bytes, pos) == DecodeFormatName(pos, DecodeString(bytes, pos))

\* #[derive(Encode)] for TilesetFile: the fields in order.
EncodeFile(f) ==
    EncodeVarint(f.tile_size[1]) \o EncodeVarint(f.tile_size[2])
        \o EncodeVarint(f.tile_count)
        \o EncodeGroups(f.tile_groups)
        \o EncodeBytes(FormatName(f.texture_format))
        \o EncodeVarint(f.texture_mips)
        \o EncodeBytes(f.texture_data)

\* #[derive(Decode)] for TilesetFile: [ok, file]; bytes after the last field are
\* not read.
DecodeFile(bytes) ==
    LET w == DecodeVarint(bytes, 0, 4)
        h == DecodeVarint(bytes, w.next, 4)
        count == DecodeVarint(bytes, h.next, 2)
        gs == DecodeGroups(bytes, count.next)
        format == DecodeFormat(bytes, gs.next)
        mips == DecodeVarint(bytes, format.next, 4)
        data == DecodeBytes(bytes, mips.next)
    IN  IF w.ok /\ h.ok /\ count.ok /\ gs.ok /\ format.ok /\ mips.ok /\ data.ok
            THEN [ok |-> TRUE,
                  file |-> [kind |-> "TilesetFile",
                            tile_size |-> <<w.value, h.value>>,
                            tile_count |-> count.value,
                            tile_groups |-> gs.value,
                            texture_format |-> format.value,
                            texture_mips |-> mips.value,
                            texture_data |-> data.value]]
            ELSE [ok |-> FALSE, file |-> NoFile]

\* Bound of the file model: the highest compression level.
MaxCompression == 9

\* The longest stored block of a deflate stream.
StoredBlockMax == 65535

RECURSIVE Deflate(_, _)
\* flate2::write::DeflateEncoder, finished when it is dropped at the end of the
\* statement: the stream of stored blocks (RFC 1951, 3.2.4) of the bytes, which
\* every level may emit; the Huffman coding of the levels is not modelled. A
\* block is its header (1 if it is the last, else 0), LEN, NLEN and the bytes.
Deflate(bytes, level) ==
    IF Len(bytes) <= StoredBlockMax
        THEN <<1>> \o LittleEndian(Len(bytes), 2)
                 \o LittleEndian(StoredBlockMax - Len(bytes), 2) \o bytes
        ELSE <<0>> \o LittleEndian(StoredBlockMax, 2) \o LittleEndian(0, 2)
                 \o SubSeq(bytes, 1, StoredBlockMax)
                 \o Deflate(SubSeq(bytes, StoredBlockMax + 1, Len(bytes)), level)

RECURSIVE Inflate(_, _)
\* flate2::read::DeflateDecoder from position pos on: the bytes it yields before
\* the stream ends or is found corrupt.
Inflate(bytes, pos) ==
    IF pos + 5 > Len(bytes) \/ bytes[pos + 1] > 1 THEN <<>>
    ELSE IF FromLittleEndian(SubSeq(bytes, pos + 2, pos + 3))
                + FromLittleEndian(SubSeq(bytes, pos + 4, pos + 5)) # StoredBlockMax
        THEN <<>>
    ELSE SubSeq(bytes, pos + 6,
                Min(Len(bytes), pos + 5 + FromLittleEndian(SubSeq(bytes, pos + 2, pos + 3))))
             \o (IF bytes[pos + 1] = 1 THEN <<>>
                 ELSE Inflate(bytes, pos + 5 + FromLittleEndian(SubSeq(bytes, pos + 2, pos + 3))))

\* A write that deflates as asked but always puts down the flag byte 0.
Write_FlagZero(f, compression) ==
    IF compression = 0
        THEN <<0>> \o EncodeFile(f)
        ELSE <<0>> \o Deflate(EncodeFile(f), compression)

\* TilesetFile::write: the flag byte, then the encoded file, deflated if
\* compression is not 0.
Write(f, compression) ==
    IF compression = 0
        THEN <<0>> \o EncodeFile(f)
        ELSE <<1>> \o Deflate(EncodeFile(f), compression)

\* The result of read once the file is decoded.
ReadDecoded(r) ==
    [ok |-> r.ok, status |-> IF r.ok THEN "ok" ELSE "Decode", file |-> r.file]

\* TilesetFile::read: [ok, status, file]
Read(bytes) ==
    IF bytes = <<>> THEN [ok |-> FALSE, status |-> "Io", file |-> NoFile]
    ELSE IF bytes[1] = 0 THEN ReadDecoded(DecodeFile(Tail(bytes)))
    ELSE ReadDecoded(DecodeFile(Inflate(bytes, 1)))

\* TileGroups::into_file_data: the name and the tiles of every range.
IntoFileData(ranges, indices) ==
    [i \in DOMAIN ranges |->
        [name |-> ranges[i].name, tiles |-> SliceOf(indices, ranges[i].range).tiles]]

RECURSIVE FlatTiles(_, _)
FlatTiles(data, i) ==
    IF i > Len(data) THEN <<>> ELSE data[i].tiles \o FlatTiles(data, i + 1)

\* TileGroups::from_file_data: the tiles appended group by group, and the range
\* of every group.
FromFileData(data) ==
    [ranges |-> [i \in DOMAIN data |->
                    [name |-> data[i].name,
                     range |-> Range(Len(FlatTiles(SubSeq(data, 1, i - 1), 1)),
                                     Len(FlatTiles(SubSeq(data, 1, i), 1)))]],
     indices |-> FlatTiles(data, 1)]

\* What the volume check of a call read: sizes, format and the length of the data.
Shape(size, layers, mips, format, len, initialized) ==
    [size |-> size, layers |-> layers, mips |-> mips, format |-> format, len |-> len,
     initialized |-> initialized]

ShapeOfFile(f) ==
    Shape(f.tile_size, f.tile_count, f.texture_mips, f.texture_format, Len(f.texture_data), TRUE)

\* TilesetFile::new: [ok, status, file]
NewFile(tg, texture) ==
    IF ~texture.initialized THEN [ok |-> FALSE, status |-> "Uninitialized", file |-> NoFile]
    ELSE IF ~ValidateDataVolume(texture.format, <<texture.size[1], texture.size[2]>>,
                                texture.size[3], texture.mips, texture.data)
        THEN [ok |-> FALSE, status |-> "InvalidData", file |-> NoFile]
    ELSE IF texture.size[3] >= TileIndexLimit
        THEN [ok |-> FALSE, status |-> "TooManyTiles", file |-> NoFile]
    ELSE [ok |-> TRUE, status |-> "ok",
          file |-> [kind |-> "TilesetFile",
                    tile_size |-> <<texture.size[1], texture.size[2]>>,
                    tile_count |-> texture.size[3],
                    tile_groups |-> IntoFileData(tg.ranges, tg.indices),
                    texture_format |-> texture.format,
                    texture_mips |-> texture.mips,
                    texture_data |-> texture.data]]

\* TilesetFile::into_count_groups_image: [ok, status, loaded]
IntoCountGroupsImage(f) ==
    IF ~ValidateDataVolume(f.texture_format, f.tile_size, f.tile_count, f.texture_mips,
                           f.texture_data)
        THEN [ok |-> FALSE, status |-> "InvalidData", loaded |-> NoFile]
        ELSE [ok |-> TRUE, status |-> "ok",
              loaded |-> [kind |-> "loaded",
                          tile_count |-> f.tile_count,
                          tile_groups |-> FromFileData(f.tile_groups),
                          image |-> [size |-> <<f.tile_size[1], f.tile_size[2], f.tile_count>>,
                                     format |-> f.texture_format,
                                     mips |-> f.texture_mips,
                                     data_order |-> "LayerMajor",
                                     data |-> f.texture_data]]]

\* A TilesetFile value.
File(size, count, gs, format, mips, data) ==
    [kind |-> "TilesetFile", tile_size |-> size, tile_count |-> count, tile_groups |-> gs,
     texture_format |-> format, texture_mips |-> mips, texture_data |-> data]

\* The TilesetFile values of the model (the fields are public): files whose data
\* have the volume of their sizes, with no tile, with groups, with values of one,
\* three and five encoded bytes, and files whose data do not.
FileValues ==
    {File(<<1, 1>>, 0, <<>>, "Rgba8Unorm", 1, <<>>),
     File(<<2, 2>>, 1, <<[name |-> <<97>>, tiles |-> <<0>>]>>, "R8Unorm", 2, <<1, 2, 3, 255, 5>>),
     File(<<1, 1>>, 2, <<[name |-> <<97>>, tiles |-> <<0, 1>>], [name |-> <<98, 99>>, tiles |-> <<>>]>>,
          "Rgba8Unorm", 1, <<9, 8, 7, 255, 6, 5, 4, 0>>),
     File(<<300, 70000>>, 0, <<[name |-> <<>>, tiles |-> <<65535, 251>>]>>, "R8Unorm", 1, <<>>),
     File(<<16, 16>>, 1, <<>>, "R8Unorm", 1, [i \in 1..256 |-> (7 * i) % 256]),
     File(<<1, 1>>, 2, <<>>, "R8Unorm", 1, <<7>>),
     File(<<1, 1>>, 0, <<[name |-> <<97>>, tiles |-> <<3>>]>>, "R8Unorm", 1, <<7, 8>>),
     File(<<4, 4>>, 0, <<>>, "Bc1RgbaUnorm", 1, <<>>)}

\* A TileGroups value as format.rs has it, and an Image.
Groups(ranges, indices) == [ranges |-> ranges, indices |-> indices]

Texture(size, mips, format, initialized, data) ==
    [size |-> size, mips |-> mips, format |-> format, initialized |-> initialized, data |-> data]

\* The arguments of TilesetFile::new of the model: a texture with the right
\* volume, with groups, with too few bytes, without data, with more layers
\* than TileIndex counts, and of a format without a pixel size.
NewInputs == 1..6

NewInput(k) ==
    CASE k = 1 -> [tile_groups |-> Groups(<<>>, <<>>),
                   texture |-> Texture(<<1, 1, 2>>, 1, "R8Unorm", TRUE, <<7, 9>>)]
      [] k = 2 -> [tile_groups |-> Groups(<<[name |-> <<97>>, range |-> Range(0, 2)]>>, <<0, 0>>),
                   texture |-> Texture(<<2, 2, 1>>, 2, "Rgba8Unorm", TRUE,
                                       [i \in 1..20 |-> 10 + i])]
      [] k = 3 -> [tile_groups |-> Groups(<<>>, <<>>),
                   texture |-> Texture(<<1, 1, 2>>, 1, "R8Unorm", TRUE, <<7>>)]
      [] k = 4 -> [tile_groups |-> Groups(<<>>, <<>>),
                   texture |-> Texture(<<1, 1, 2>>, 1, "R8Unorm", FALSE, <<>>)]
      [] k = 5 -> [tile_groups |-> Groups(<<>>, <<>>),
                   texture |-> Texture(<<1, 1, TileIndexLimit>>, 1, "R8Unorm", TRUE,
                                       Repeat(0, TileIndexLimit))]
      [] k = 6 -> [tile_groups |-> Groups(<<>>, <<>>),
                   texture |-> Texture(<<4, 4, 0>>, 1, "Bc1RgbaUnorm", TRUE, <<>>)]

\* Some TilesetFile value is in hand.
FileInit ==
    /\ GroupsStart
    /\ ImportIdle
    /\ MipIdle
    /\ LayoutIdle
    /\ file \in FileValues
    /\ file_bytes = <<>>
    /\ written = NoFile
    /\ file_call = NoFileCall
    /\ loaded = NoFile

\* TilesetFile::new(tile_groups, texture)
FileNew(k) ==
    /\ \E in \in {NewInput(k)} :
       \E r \in {NewFile(in.tile_groups, in.texture)} :
        /\ file' = IF r.ok THEN r.file ELSE file
        /\ file_call' = [op |-> "new", prev |-> file_call.op, status |-> r.status,
                         shape |-> Shape(<<in.texture.size[1], in.texture.size[2]>>,
                                         in.texture.size[3], in.texture.mips, in.texture.format,
                                         Len(in.texture.data), in.texture.initialized)]
    /\ UNCHANGED <<file_bytes, written, loaded, groupVars, importVars, mipVars, layoutVars>>

\* file.write(compression, writer) into an empty stream
FileWrite(compression) ==
    /\ file # NoFile
    /\ file_bytes' = Write(file, compression)
    /\ written' = [kind |-> "written", file |-> file, compression |-> compression]
    /\ file_call' = [op |-> "write", prev |-> file_call.op, status |-> "ok",
                     shape |-> ShapeOfFile(file)]
    /\ UNCHANGED <<file, loaded, groupVars, importVars, mipVars, layoutVars>>

\* TilesetFile::read(bytes) of the stream
FileRead ==
    /\ \E r \in {Read(file_bytes)} :
        /\ file' = IF r.ok THEN r.file ELSE file
        /\ file_call' = [op |-> "read", prev |-> file_call.op, status |-> r.status,
                         shape |-> IF r.ok THEN ShapeOfFile(r.file) ELSE NoFile]
    /\ UNCHANGED <<file_bytes, written, loaded, groupVars, importVars, mipVars, layoutVars>>

\* file.into_count_groups_image(), which consumes the file
FileInto ==
    /\ file # NoFile
    /\ \E r \in {IntoCountGroupsImage(file)} :
        /\ loaded' = IF r.ok THEN r.loaded ELSE loaded
        /\ file_call' = [op |-> "into", prev |-> file_call.op, status |-> r.status,
                         shape |-> ShapeOfFile(file)]
    /\ file' = NoFile
    /\ UNCHANGED <<file_bytes, written, groupVars, importVars, mipVars, layoutVars>>

\* The stream just written is cut short: its first byte alone, its first half,
\* or all but its last byte are left.
FileTruncate(n) ==
    /\ written # NoFile
    /\ Len(file_bytes) >= 2
    /\ n \in {1, Len(file_bytes) \div 2, Len(file_bytes) - 1}
    /\ file_bytes' = SubSeq(file_bytes, 1, n)
    /\ written' = NoFile
    /\ UNCHANGED <<file, file_call, loaded, groupVars, importVars, mipVars, layoutVars>>

FileNext ==
    \/ \E k \in NewInputs : FileNew(k)
    \/ \E compression \in 0..MaxCompression : FileWrite(compression)
    \/ FileRead
    \/ FileInto
    \/ \E n \in 1..Len(file_bytes) : FileTruncate(n)

SpecFile == FileInit /\ [][FileNext]_vars

\* The volume a call's sizes, mip count and format imply is the length of its data.
VolumeHolds(shape) ==
    /\ PixelSize(shape.format).ok
    /\ SumLevels(shape.size, shape.mips) * shape.layers * PixelSize(shape.format).bytes = shape.len

\* The last call was new on an initialized texture.
NewOnData == file_call.op = "new" /\ file_call.shape.initialized

\* C6, as stated: new and read fail with InvalidData whenever the length of
\* the data differs from the volume that the tile size, the tile count, the mip
\* count and the format imply, and neither returns a file that breaks the equality.
C6_NewAndReadValidate ==
    /\ NewOnData => /\ ~VolumeHolds(file_call.shape) => file_call.status = "InvalidData"
                    /\ file_call.status = "ok" => VolumeHolds(ShapeOfFile(file))
    /\ (file_call.op = "read" /\ file_call.status = "ok") => VolumeHolds(ShapeOfFile(file))

\* C6, amended: new and into_count_groups_image fail with InvalidData whenever
\* the length of the data differs from the implied volume; new returns no file
\* that breaks the equality and into_count_groups_image no image that does.
C6_NewAndIntoValidate ==
    /\ NewOnData => /\ ~VolumeHolds(file_call.shape) => file_call.status = "InvalidData"
                    /\ file_call.status = "ok" => VolumeHolds(ShapeOfFile(file))
    /\ file_call.op = "into" =>
          /\ ~VolumeHolds(file_call.shape) => file_call.status = "InvalidData"
          /\ file_call.status = "ok" =>
                /\ VolumeHolds(file_call.shape)
                /\ Len(loaded.image.data) = file_call.shape.len

\* A file that read returned is refused by into_count_groups_image.
C6_Witness ==
    /\ file_call.op = "into"
    /\ file_call.prev = "read"
    /\ file_call.status = "InvalidData"
    /\ ~VolumeHolds(file_call.shape)

\* C7: reading what write wrote, at any compression level, succeeds and
\* returns the tile size, tile count, groups, format, mip count and data of the
\* file written.
C7_WriteReadRoundTrip ==
    (file_call.op = "read" /\ written # NoFile) =>
        /\ file_call.status = "ok"
        /\ file.tile_size = written.file.tile_size
        /\ file.tile_count = written.file.tile_count
        /\ file.tile_groups = written.file.tile_groups
        /\ file.texture_format = written.file.texture_format
        /\ file.texture_mips = written.file.texture_mips
        /\ file.texture_data = written.file.texture_data

\* A deflated file of no tile and no data was read back.
C7_Witness ==
    /\ file_call.op = "read"
    /\ written # NoFile
    /\ written.compression = 1
    /\ written.file.tile_count = 0
    /\ written.file.texture_data = <<>>
    /\ file_call.status = "ok"
    /\ file.tile_count = 0
    /\ file.texture_data = <<>>

\* What the stream holds behind its flag byte, as read takes it: the bytes
\* themselves under the flag 0, what the inflater yields under the flag 1.
Payload == IF file_bytes[1] = 0 THEN Tail(file_bytes) ELSE Inflate(file_bytes, 1)

\* C23: write with the compression level 0 emits the flag byte 0 and the
\* uncompressed payload, and with a level of 1..9 the flag byte 1 and a deflate
\* stream of the payload; read decodes the payload directly under the flag 0
\* and through the inflater under the flag 1.
C23_FlagByteSelectsCodec ==
    /\ [](written # NoFile =>
             /\ file_bytes[1] = (IF written.compression = 0 THEN 0 ELSE 1)
             /\ Payload = EncodeFile(written.file)
             /\ written.compression # 0 => Tail(file_bytes) # EncodeFile(written.file))
    /\ [][(file_call'.op = "read" /\ file_call'.status = "ok" /\ file_bytes' = file_bytes) =>
              /\ file_bytes[1] \in {0, 1}
              /\ EncodeFile(file') = Payload]_vars

\* A file with data, written at the level 9 behind the flag byte 1, was read back.
C23_Witness ==
    /\ file_call.op = "read"
    /\ file_call.status = "ok"
    /\ written # NoFile
    /\ written.compression = MaxCompression
    /\ written.file.texture_data # <<>>
    /\ file_bytes[1] = 1
    /\ file = written.file

-----------------------------------------------------------------------------
(* One call of a mip filter: src/importer/texture_builder.rs *)

\* The sizes of the level the filters read: the box filter halves 2x2 and 4x2,
\* the bilinear filter takes the others.
MipSourceSizes == {<<2, 2>>, <<4, 2>>, <<3, 3>>, <<5, 5>>, <<5, 3>>, <<2, 1>>}

\* The alphas of the pixels that are not transparent: the least one above the
\* cutoff, and opaque.
MipAlphas == {1, 255}

\* An Rgba8Unorm level whose pixel i has the colour 20 + i and the given alpha,
\* but for the pixel `hole`, whose alpha is 0 (hole = -1: no such pixel).
MipSourceImage(size, alpha, hole) ==
    [size |-> size, format |-> "Rgba8Unorm",
     data |-> [k \in 1..(size[1] * size[2] * 4) |->
                  IF (k - 1) % 4 < 3 THEN 20 + ((k - 1) \div 4)
                  ELSE IF (k - 1) \div 4 = hole THEN 0 ELSE alpha]]

\* The buffer of the level written: the builder reuses it from tile to tile, so
\* it holds zeroes or the pixels of the tile before.
MipTargetImage(size, fill) ==
    [size |-> size, format |-> "Rgba8Unorm", data |-> Repeat(fill, size[1] * size[2] * 4)]

MipFills == {0, 9}

MipInit ==
    /\ GroupsStart
    /\ ImportIdle
    /\ FileIdle
    /\ LayoutIdle
    /\ \E size \in MipSourceSizes, alpha \in MipAlphas, fill \in MipFills :
       \E hole \in -1..(size[1] * size[2] - 1) :
            /\ mip_src = MipSourceImage(size, alpha, hole)
            /\ mip_tgt = MipTargetImage(MipLevelSize(size, 1), fill)
    /\ mip_call = NoCall

\* generate_mips, a level twice the size of the next: downscale_image_half
MipHalf ==
    /\ mip_call = NoCall
    /\ mip_src.size = <<2 * mip_tgt.size[1], 2 * mip_tgt.size[2]>>
    /\ \E r \in {DownscaleImageHalf(mip_src, mip_tgt)} :
        /\ mip_tgt' = r.image
        /\ mip_call' = [op |-> "half", ok |-> r.ok]
    /\ UNCHANGED <<mip_src, groupVars, importVars, fileVars, layoutVars>>

\* generate_mips, any other level: downscale_image_bilinear
MipBilinear ==
    /\ mip_call = NoCall
    /\ mip_src.size # <<2 * mip_tgt.size[1], 2 * mip_tgt.size[2]>>
    /\ \E r \in {DownscaleImageBilinear(mip_src, mip_tgt)} :
        /\ mip_tgt' = r.image
        /\ mip_call' = [op |-> "bilinear", ok |-> r.ok]
    /\ UNCHANGED <<mip_src, groupVars, importVars, fileVars, layoutVars>>

MipNext == MipHalf \/ MipBilinear

SpecMip == MipInit /\ [][MipNext]_vars

\* The four pixels of mip_src that contribute to the pixel (tx, ty) of mip_tgt:
\* the 2x2 block at the scaled coordinate, rounded down.
Contributing(tx, ty) ==
    LET sx == (tx * mip_src.size[1]) \div mip_tgt.size[1]
        sy == (ty * mip_src.size[2]) \div mip_tgt.size[2]
    IN  {<<sx, sy>>, <<sx + 1, sy>>, <<sx, sy + 1>>, <<sx + 1, sy + 1>>}

\* The pixel (x, y) of mip_src has an alpha at or below the cutoff.
TransparentAt(x, y) == PixelAt(mip_src, x, y)[4] * AlphaCutoffInverse <= 255

-----------------------------------------------------------------------------
(* u32 arithmetic: the components of UVec2 and URect in src/layout.rs *)

(***************************************************************************)
(* A u32 is held as its 32 bits read as a signed integer, the width of the *)
(* integers of TLC: n >= 0 is n, and n < 0 stands for n + 2^32 (so -1 is   *)
(* u32::MAX). The operators below are the unsigned operations on that      *)
(* reading; none of them leaves the range.                                 *)
(***************************************************************************)
I32Max == (Pow2(30) - 1) + Pow2(30)
I32Min == (-I32Max) - 1
Word == Pow2(16)
U32Max == -1

\* a < b and a <= b as u32
ULess(a, b) == IF (a < 0) = (b < 0) THEN a < b ELSE b < 0
ULeq(a, b) == a = b \/ ULess(a, b)

\* a + b overflows u32
AddOverflows(a, b) ==
    IF a >= 0 /\ b >= 0 THEN FALSE
    ELSE IF a < 0 /\ b < 0 THEN TRUE
    ELSE a + b >= 0

\* a.wrapping_add(b)
WrappingAdd(a, b) ==
    IF a >= 0 /\ b >= 0
        THEN IF a > I32Max - b THEN ((a - I32Max) - 1) + ((b - I32Max) - 1) ELSE a + b
    ELSE IF a < 0 /\ b < 0
        THEN IF a < I32Min - b THEN ((a + I32Max) + 1) + ((b + I32Max) + 1) ELSE a + b
    ELSE a + b

\* a - b underflows u32
SubOverflows(a, b) == ULess(a, b)

\* a.wrapping_sub(b)
WrappingSub(a, b) == WrappingAdd(a, IF b = I32Min THEN I32Min ELSE -b)

\* The 16-bit halves of a u32, and the u32 of two halves.
Hi(a) == (a \div Word) % Word
Lo(a) == a % Word
FromHalves(h, l) == IF h >= Word \div 2 THEN (h - Word) * Word + l ELSE h * Word + l

\* The product of two halves as <<high half, low half>>.
HalfProduct(x, y) ==
    LET t == (x \div 256) * y
        w == (t % 256) * 256 + (x % 256) * y
    IN  <<(t \div 256) + (w \div Word), w % Word>>

\* The high half of a * b before it is cut to 16 bits.
MulHigh(a, b) ==
    HalfProduct(Lo(a), Lo(b))[1] + HalfProduct(Hi(a), Lo(b))[2] + HalfProduct(Lo(a), Hi(b))[2]

\* a * b overflows u32
MulOverflows(a, b) ==
    \/ Hi(a) # 0 /\ Hi(b) # 0
    \/ HalfProduct(Hi(a), Lo(b))[1] # 0
    \/ HalfProduct(Lo(a), Hi(b))[1] # 0
    \/ MulHigh(a, b) >= Word

\* a.wrapping_mul(b)
WrappingMul(a, b) == FromHalves(MulHigh(a, b) % Word, HalfProduct(Lo(a), Lo(b))[2])

\* a / b as u32, for b # 0
UDiv(a, b) ==
    IF b < 0 THEN (IF ULess(a, b) THEN 0 ELSE 1)
    ELSE IF a >= 0 THEN a \div b
    ELSE IF b = 1 THEN a
    ELSE LET h == ((a \div 2) + I32Max) + 1
         IN  2 * (h \div b) + (IF (h % b) + (a % 2) >= b - (h % b) THEN 1 ELSE 0)

\* a % b as u32, for b # 0
URem(a, b) ==
    IF b < 0 THEN (IF ULess(a, b) THEN a ELSE WrappingSub(a, b))
    ELSE IF a >= 0 THEN a % b
    ELSE LET h == ((a \div 2) + I32Max) + 1
         IN  IF (h % b) + (a % 2) >= b - (h % b)
                 THEN ((h % b) - (b - (h % b))) + (a % 2)
                 ELSE 2 * (h % b) + (a % 2)

\* The operations of UVec2, component by component.
VAdd(a, b) == <<WrappingAdd(a[1], b[1]), WrappingAdd(a[2], b[2])>>
VAddOverflows(a, b) == AddOverflows(a[1], b[1]) \/ AddOverflows(a[2], b[2])
VSub(a, b) == <<WrappingSub(a[1], b[1]), WrappingSub(a[2], b[2])>>
VSubOverflows(a, b) == SubOverflows(a[1], b[1]) \/ SubOverflows(a[2], b[2])
VMul(a, b) == <<WrappingMul(a[1], b[1]), WrappingMul(a[2], b[2])>>
VMulOverflows(a, b) == MulOverflows(a[1], b[1]) \/ MulOverflows(a[2], b[2])
VDiv(a, b) == <<UDiv(a[1], b[1]), UDiv(a[2], b[2])>>

\* a.cmple(b).all()
CmpleAll(a, b) == ULeq(a[1], b[1]) /\ ULeq(a[2], b[2])

-----------------------------------------------------------------------------
(* Layouts: src/layout.rs *)

\* The results of tile_info and frame: Ok, Err(LayoutError), or a panic.
LayoutPanic == [status |-> "panic"]
LayoutErr(err) == [status |-> "err", err |-> err]
InfoOk(size, count) == [status |-> "ok", info |-> [size |-> size, count |-> count]]
FrameOk(frame) == [status |-> "ok", frame |-> frame]

\* LayoutError::OutOfRange { idx, len }, len cut to a TileIndex
OutOfRange(idx, len) == [kind |-> "OutOfRange", idx |-> idx, len |-> Lo(len)]

\* An image counts as empty only when both sides are zero.
NonEmpty_Either(size) == size[1] # 0 \/ size[2] # 0

\* image_size.cmpne(UVec2::ZERO).all()
NonEmpty(size) == size[1] # 0 /\ size[2] # 0

\* single_info
SingleInfo(size) ==
    IF ~NonEmpty(size) THEN LayoutErr([kind |-> "EmptyImage"]) ELSE InfoOk(size, 1)

\* single_frame, with TileFrame::from_size
SingleFrame(size, index) ==
    IF ~NonEmpty(size) THEN LayoutErr([kind |-> "EmptyImage"])
    ELSE IF index # 0 THEN LayoutErr(OutOfRange(index, 1))
    ELSE FrameOk(TileFrame(<<0, 0>>, size, <<0, 0>>))

\* A GridLayout value.
GridLayout(size, padding, margin_min, margin_max) ==
    [kind |-> "Grid", tile_size |-> size, tile_padding |-> padding,
     image_margin |-> [min |-> margin_min, max |-> margin_max]]

\* GridLayout::margin_size
MarginSize(l) == VAdd(l.image_margin.min, l.image_margin.max)

\* The dividend and the divisor of GridLayout::grid.
GridDividend(l, size) == VAdd(VSub(size, MarginSize(l)), l.tile_padding)
GridDivisor(l) == VAdd(l.tile_size, l.tile_padding)

\* GridLayout::grid
Grid(l, size) == VDiv(GridDividend(l, size), GridDivisor(l))

\* An addition or the subtraction of GridLayout::grid leaves u32.
GridOverflows(l, size) ==
    \/ VAddOverflows(l.image_margin.min, l.image_margin.max)
    \/ VSubOverflows(size, MarginSize(l))
    \/ VAddOverflows(VSub(size, MarginSize(l)), l.tile_padding)
    \/ VAddOverflows(l.tile_size, l.tile_padding)

\* GridLayout::grid panics: a division by zero, or an overflow in a build that
\* checks for it.
GridPanics(l, size, overflow_checks) ==
    \/ overflow_checks /\ GridOverflows(l, size)
    \/ GridDivisor(l)[1] = 0
    \/ GridDivisor(l)[2] = 0

\* GridLayout::tile_info past the call of grid: g is the grid.
GridInfoOf(l, g, overflow_checks) ==
    IF overflow_checks /\ MulOverflows(g[1], g[2]) THEN LayoutPanic
    ELSE IF ~ULess(WrappingMul(g[1], g[2]), TileIndexLimit)
        THEN LayoutErr([kind |-> "TooManyTiles", count |-> WrappingMul(g[1], g[2])])
    ELSE InfoOk(l.tile_size, WrappingMul(g[1], g[2]))

\* GridLayout::tile_info
GridTileInfo(l, size, overflow_checks) ==
    IF GridPanics(l, size, overflow_checks) THEN LayoutPanic
    ELSE GridInfoOf(l, Grid(l, size), overflow_checks)

\* The frame GridLayout::frame makes of the cell (x, y).
GridCellFrame(l, x, y, overflow_checks) ==
    IF overflow_checks /\ \/ VMulOverflows(GridDivisor(l), <<x, y>>)
                          \/ VAddOverflows(VMul(GridDivisor(l), <<x, y>>), l.tile_size)
        THEN LayoutPanic
        ELSE FrameOk(TileFrame(VMul(GridDivisor(l), <<x, y>>),
                               VAdd(VMul(GridDivisor(l), <<x, y>>), l.tile_size),
                               <<0, 0>>))

\* GridLayout::frame past the call of grid: g is the grid.
GridFrameOf(l, g, index, overflow_checks) ==
    IF overflow_checks /\ MulOverflows(g[1], g[2]) THEN LayoutPanic
    ELSE IF ULess(index, WrappingMul(g[1], g[2]))
        THEN GridCellFrame(l, URem(index, g[1]), UDiv(index, g[1]), overflow_checks)
    ELSE LayoutErr(OutOfRange(index, WrappingMul(g[1], g[2])))

\* GridLayout::frame
GridFrame(l, size, index, overflow_checks) ==
    IF GridPanics(l, size, overflow_checks) THEN LayoutPanic
    ELSE GridFrameOf(l, Grid(l, size), index, overflow_checks)

\* A FramesLayout value. The vector of frames is held as runs of equal frames,
\* [frame, times] with times >= 1: frames = run 1 repeated, then run 2, ..
FramesLayout(size, runs) == [kind |-> "Frames", tile_size |-> size, frames |-> runs]

RECURSIVE FramesLen(_)
\* self.frames.len()
FramesLen(runs) == IF runs = <<>> THEN 0 ELSE Head(runs).times + FramesLen(Tail(runs))

\* A lookup that takes the length of the vector for an index of it.
FramesGet_Inclusive(runs, index) ==
    IF runs = <<>> THEN <<>>
    ELSE IF index <= FramesLen(runs) THEN <<runs[Len(runs)].frame>>
    ELSE <<>>

RECURSIVE FramesGet(_, _)
\* self.frames.get(index): <<frame>>, or <<>> for None
FramesGet(runs, index) ==
    IF runs = <<>> THEN <<>>
    ELSE IF index < Head(runs).times THEN <<Head(runs).frame>>
    ELSE FramesGet(Tail(runs), index - Head(runs).times)

\* frame.size() of a URect
RectSize(f) == VSub(f.max, f.min)

\* The checks of the loop of FramesLayout::tile_info on one frame:
\* "ok", "panic", or the error.
CheckFrame(l, size, index, f, overflow_checks) ==
    IF ~CmpleAll(f.max, size)
        THEN LayoutErr([kind |-> "InvalidFrame", index |-> index,
                        frame |-> [min |-> f.min, max |-> f.max], image_size |-> size])
    ELSE IF overflow_checks /\ \/ VSubOverflows(f.max, f.min)
                               \/ VAddOverflows(f.anchor, RectSize(f))
        THEN LayoutPanic
    ELSE IF ~CmpleAll(VAdd(f.anchor, RectSize(f)), l.tile_size)
        THEN LayoutErr([kind |-> "InvalidAnchor", index |-> index,
                        frame |-> [min |-> f.min, max |-> f.max], anchor |-> f.anchor,
                        tile_size |-> l.tile_size])
    ELSE [status |-> "ok"]

RECURSIVE CheckFrames(_, _, _, _, _)
\* The loop of FramesLayout::tile_info from the run r on, whose first frame has
\* the index `index`: the result of the first frame that does not pass.
CheckFrames(l, size, r, index, overflow_checks) ==
    IF r > Len(l.frames) THEN [status |-> "ok"]
    ELSE IF CheckFrame(l, size, index, l.frames[r].frame, overflow_checks).status # "ok"
        THEN CheckFrame(l, size, index, l.frames[r].frame, overflow_checks)
    ELSE CheckFrames(l, size, r + 1, index + l.frames[r].times, overflow_checks)

\* FramesLayout::tile_info
FramesTileInfo(l, size, overflow_checks) ==
    IF CheckFrames(l, size, 1, 0, overflow_checks).status # "ok"
        THEN CheckFrames(l, size, 1, 0, overflow_checks)
    ELSE IF FramesLen(l.frames) >= TileIndexLimit
        THEN LayoutErr([kind |-> "TooManyTiles", count |-> FramesLen(l.frames)])
    ELSE InfoOk(l.tile_size, FramesLen(l.frames))

\* FramesLayout::frame
FramesFrame(l, index) ==
    IF FramesGet(l.frames, index) # <<>>
        THEN FrameOk(FramesGet(l.frames, index)[1])
        ELSE LayoutErr(OutOfRange(index, FramesLen(l.frames)))

\* TilesetLayout::tile_info
TileInfo(l, size, overflow_checks) ==
    CASE l.kind = "Single" -> SingleInfo(size)
      [] l.kind = "Grid" -> GridTileInfo(l, size, overflow_checks)
      [] l.kind = "Frames" -> FramesTileInfo(l, size, overflow_checks)

\* TilesetLayout::frame
Frame(l, size, index, overflow_checks) ==
    CASE l.kind = "Single" -> SingleFrame(size, index)
      [] l.kind = "Grid" -> GridFrame(l, size, index, overflow_checks)
      [] l.kind = "Frames" -> FramesFrame(l, index)

-----------------------------------------------------------------------------
(* Resolving a layout against an image: the calls of tile_info and frame *)

\* A run of `times` frames equal to TileFrame(min, max, anchor).
Run(min, max, anchor, times) == [frame |-> TileFrame(min, max, anchor), times |-> times]

\* The grid layouts of the model: plain; with padding and a margin; of tiles
\* of one pixel; with a margin wider than the images; with tiles of no size.
GridLayouts ==
    {GridLayout(<<2, 2>>, <<0, 0>>, <<0, 0>>, <<0, 0>>),
     GridLayout(<<2, 2>>, <<1, 1>>, <<1, 1>>, <<0, 0>>),
     GridLayout(<<1, 1>>, <<0, 0>>, <<0, 0>>, <<0, 0>>),
     GridLayout(<<Word + 1, 4>>, <<0, 0>>, <<Word + 5, 0>>, <<0, 0>>),
     GridLayout(<<0, 0>>, <<0, 0>>, <<0, 0>>, <<0, 0>>)}

\* The frames layouts of the model, all of tiles of 2x2: none, two frames
\* that fit a 4x4 image, a frame outside a 4x4 image, a frame larger than the
\* tile before a frame outside the image, a frame that is both, as many frames
\* as a TileIndex counts and one more, an anchor near u32::MAX, and a frame
\* whose min lies beyond its max.
FramesLayouts ==
    {FramesLayout(<<2, 2>>, <<>>),
     FramesLayout(<<2, 2>>, <<Run(<<0, 0>>, <<2, 2>>, <<0, 0>>, 1),
                              Run(<<2, 0>>, <<3, 1>>, <<1, 1>>, 1)>>),
     FramesLayout(<<2, 2>>, <<Run(<<0, 0>>, <<2, 2>>, <<0, 0>>, 1),
                              Run(<<3, 3>>, <<5, 5>>, <<0, 0>>, 1)>>),
     FramesLayout(<<2, 2>>, <<Run(<<0, 0>>, <<3, 2>>, <<0, 0>>, 1),
                              Run(<<3, 3>>, <<5, 5>>, <<0, 0>>, 1)>>),
     FramesLayout(<<2, 2>>, <<Run(<<0, 0>>, <<2, 2>>, <<0, 0>>, 2),
                              Run(<<0, 0>>, <<5, 5>>, <<0, 0>>, 1)>>),
     FramesLayout(<<2, 2>>, <<Run(<<0, 0>>, <<2, 2>>, <<0, 0>>, TileIndexLimit - 2),
                              Run(<<1, 1>>, <<2, 2>>, <<1, 1>>, 1)>>),
     FramesLayout(<<2, 2>>, <<Run(<<0, 0>>, <<2, 2>>, <<0, 0>>, TileIndexLimit - 1),
                              Run(<<1, 1>>, <<2, 2>>, <<1, 1>>, 1)>>),
     FramesLayout(<<2, 2>>, <<Run(<<0, 0>>, <<2, 2>>, <<U32Max, 0>>, 1)>>),
     FramesLayout(<<2, 2>>, <<Run(<<3, 0>>, <<1, 1>>, <<0, 0>>, 1)>>)}

LayoutValues == {[kind |-> "Single"]} \cup GridLayouts \cup FramesLayouts

\* The image sizes of the model: empty ones, small ones, and those of
\* 65535, 65536 and 2^32 pixels.
ImageSizes ==
    {<<0, 0>>, <<4, 0>>, <<4, 4>>, <<5, 5>>, <<6, 6>>,
     <<255, 257>>, <<256, 256>>, <<Word, Word>>}

\* The tile indices looked up.
LookupIndices == {0, 1, 2, 3, 4, TileIndexLimit - 2, TileIndexLimit - 1}

LayoutInit ==
    /\ GroupsStart
    /\ ImportIdle
    /\ FileIdle
    /\ MipIdle
    /\ layout \in LayoutValues
    /\ image_size \in ImageSizes
    /\ layout_call = NoCall

\* layout.tile_info(image_size)
CallTileInfo(overflow_checks) ==
    /\ layout_call' = [op |-> "tile_info", index |-> 0, overflow_checks |-> overflow_checks,
                       result |-> TileInfo(layout, image_size, overflow_checks)]
    /\ UNCHANGED <<layout, image_size, groupVars, importVars, fileVars, mipVars>>

\* layout.frame(image_size, index)
CallFrame(index, overflow_checks) ==
    /\ layout_call' = [op |-> "frame", index |-> index, overflow_checks |-> overflow_checks,
                       result |-> Frame(layout, image_size, index, overflow_checks)]
    /\ UNCHANGED <<layout, image_size, groupVars, importVars, fileVars, mipVars>>

LayoutNext ==
    \/ \E overflow_checks \in BOOLEAN : CallTileInfo(overflow_checks)
    \/ \E index \in LookupIndices, overflow_checks \in BOOLEAN : CallFrame(index, overflow_checks)

SpecLayout == LayoutInit /\ [][LayoutNext]_vars

-----------------------------------------------------------------------------
(* Claims on layouts *)

\* What tile_info returns for the layout and the image of the state, in the
\* build of the last call.
Resolved == TileInfo(layout, image_size, layout_call.overflow_checks)

\* The last call was frame(index) on a layout of this kind that resolves, with
\* an index below its tile count.
FrameOfResolved(kind) ==
    /\ layout.kind = kind
    /\ layout_call.op = "frame"
    /\ Resolved.status = "ok"
    /\ ULess(layout_call.index, Resolved.info.count)

\* The cell (i % grid_w, i / grid_w) of the index looked up.
CellOfIndex ==
    <<URem(layout_call.index, Grid(layout, image_size)[1]),
      UDiv(layout_call.index, Grid(layout, image_size)[1])>>

\* The min corner the grid frame of the index looked up has: the margin origin
\* plus the cell scaled by tile_size + padding.
GridMinAtMargin == VAdd(layout.image_margin.min, VMul(GridDivisor(layout), CellOfIndex))

\* C12: the frame of tile i of a grid layout has the min corner margin origin +
\* (tile_size + padding) * (i % grid_w, i / grid_w), the max corner min +
\* tile_size, and the anchor (0, 0).
C12_GridFrameAtMargin ==
    FrameOfResolved("Grid") =>
        layout_call.result =
            FrameOk(TileFrame(GridMinAtMargin, VAdd(GridMinAtMargin, layout.tile_size), <<0, 0>>))

\* The grid of the state is computed without overflow and without a division
\* by zero.
GridComputes == ~GridPanics(layout, image_size, TRUE)

\* image_size - margins + padding is a multiple of tile_size + padding on both axes.
GridIsExact ==
    /\ URem(GridDividend(layout, image_size)[1], GridDivisor(layout)[1]) = 0
    /\ URem(GridDividend(layout, image_size)[2], GridDivisor(layout)[2]) = 0

\* C13: resolving a grid layout fails with InvalidGrid unless image_size -
\* margins + padding is an exact multiple of tile_size + padding on both axes;
\* a partial row or column of tiles is never dropped silently.
C13_PartialGridIsAnError ==
    (layout.kind = "Grid" /\ layout_call.op = "tile_info" /\ GridComputes /\ ~GridIsExact) =>
        /\ layout_call.result.status = "err"
        /\ layout_call.result.err.kind = "InvalidGrid"

\* The rectangle min..max lies within an image of this size.
WithinImage(f, size) == CmpleAll(f.min, f.max) /\ CmpleAll(f.max, size)

\* C14: for a grid layout that resolves, tile_count is grid_width *
\* grid_height, and the frame of every index below it lies within the image.
C14_GridCountAndBounds ==
    /\ (layout.kind = "Grid" /\ layout_call.op = "tile_info"
            /\ layout_call.result.status = "ok") =>
          /\ ~MulOverflows(Grid(layout, image_size)[1], Grid(layout, image_size)[2])
          /\ layout_call.result.info.count =
                WrappingMul(Grid(layout, image_size)[1], Grid(layout, image_size)[2])
    /\ FrameOfResolved("Grid") =>
          /\ layout_call.result.status = "ok"
          /\ WithinImage(layout_call.result.frame, image_size)

\* The frame lies within the image.
FrameInBounds(f) == CmpleAll(f.max, image_size)

\* anchor + frame.size <= tile_size, in the integers, for a frame with min <= max.
AnchorFits(f) ==
    /\ ~VAddOverflows(f.anchor, RectSize(f))
    /\ CmpleAll(VAdd(f.anchor, RectSize(f)), layout.tile_size)

\* Every declared frame is a rectangle: its min corner is not beyond its max corner.
FramesAreRectangles ==
    \A r \in DOMAIN layout.frames : CmpleAll(layout.frames[r].frame.min, layout.frames[r].frame.max)

\* The first index of the frames of run r, and the run of an index.
RunStart(r) == FramesLen(SubSeq(layout.frames, 1, r - 1))
RunOf(i) == CHOOSE r \in DOMAIN layout.frames :
                RunStart(r) <= i /\ i < RunStart(r) + layout.frames[r].times

\* C15: resolving a frames layout succeeds only if every declared frame lies
\* within the image and has anchor + frame.size <= tile_size; a frame that is
\* out of bounds makes the resolution of the whole source fail with
\* InvalidFrame, one whose anchor does not fit with InvalidAnchor, and the
\* error names a frame that breaks the constraint it reports.
C15_FramesAreValidated ==
    (layout.kind = "Frames" /\ layout_call.op = "tile_info" /\ FramesAreRectangles) =>
        /\ layout_call.result.status = "ok" =>
              \A r \in DOMAIN layout.frames :
                  FrameInBounds(layout.frames[r].frame) /\ AnchorFits(layout.frames[r].frame)
        /\ (\E r \in DOMAIN layout.frames :
                ~FrameInBounds(layout.frames[r].frame) \/ ~AnchorFits(layout.frames[r].frame)) =>
              /\ layout_call.result.status = "err"
              /\ layout_call.result.err.kind \in {"InvalidFrame", "InvalidAnchor"}
              /\ layout_call.result.err.index < FramesLen(layout.frames)
              /\ layout_call.result.err.kind = "InvalidFrame" =>
                    ~FrameInBounds(layout.frames[RunOf(layout_call.result.err.index)].frame)
              /\ layout_call.result.err.kind = "InvalidAnchor" =>
                    ~AnchorFits(layout.frames[RunOf(layout_call.result.err.index)].frame)

\* The layout of the state resolves to a number of tiles: a grid that computes,
\* or frames that all pass their checks.
ResolvesToTiles ==
    \/ layout.kind = "Grid" /\ GridComputes
    \/ layout.kind = "Frames" /\ CheckFrames(layout, image_size, 1, 0, TRUE).status = "ok"

\* That number is at least n (n < 2^31).
TilesAtLeast(n) ==
    IF layout.kind = "Frames" THEN FramesLen(layout.frames) >= n
    ELSE \/ MulOverflows(Grid(layout, image_size)[1], Grid(layout, image_size)[2])
         \/ ~ULess(WrappingMul(Grid(layout, image_size)[1], Grid(layout, image_size)[2]), n)

\* C16: a grid or frames layout that resolves to 65536 tiles or more fails
\* with TooManyTiles, and one that resolves to 65535 tiles succeeds with
\* tile_count = 65535.
C16_CapacityBoundary ==
    (layout_call.op = "tile_info" /\ ResolvesToTiles) =>
        /\ TilesAtLeast(TileIndexLimit) =>
              /\ layout_call.result.status = "err"
              /\ layout_call.result.err.kind = "TooManyTiles"
        /\ (TilesAtLeast(TileIndexLimit - 1) /\ ~TilesAtLeast(TileIndexLimit)) =>
              layout_call.result = InfoOk(layout.tile_size, TileIndexLimit - 1)

\* C17: resolving a Single layout fails with EmptyImage if the width or the
\* height of the image is zero; otherwise there is one tile of the size of the
\* image, and the frame of tile 0 is (0,0)..image_size with the anchor (0,0).
C17_SingleIsWholeImage ==
    layout.kind = "Single" =>
        /\ layout_call.op = "tile_info" =>
              layout_call.result =
                  IF image_size[1] = 0 \/ image_size[2] = 0
                      THEN LayoutErr([kind |-> "EmptyImage"])
                      ELSE InfoOk(image_size, 1)
        /\ (layout_call.op = "frame" /\ layout_call.index = 0) =>
              layout_call.result =
                  IF image_size[1] = 0 \/ image_size[2] = 0
                      THEN LayoutErr([kind |-> "EmptyImage"])
                      ELSE FrameOk(TileFrame(<<0, 0>>, image_size, <<0, 0>>))

\* The one tile of an image of 4x4 was looked up.
C17_Witness ==
    /\ layout.kind = "Single"
    /\ image_size = <<4, 4>>
    /\ layout_call.op = "frame"
    /\ layout_call.index = 0
    /\ layout_call.result.status = "ok"
    /\ layout_call.result.frame.max = <<4, 4>>

\* C18: on a layout that resolves with the tile count n, frame(i) succeeds
\* exactly when i < n, for a frames layout with the declared frames[i], and
\* fails otherwise with OutOfRange of idx = i and len = n.
C18_LookupWithinCount ==
    (layout_call.op = "frame" /\ Resolved.status = "ok") =>
        IF ULess(layout_call.index, Resolved.info.count)
            THEN /\ layout_call.result.status = "ok"
                 /\ layout.kind = "Frames" =>
                       layout_call.result.frame = layout.frames[RunOf(layout_call.index)].frame
            ELSE layout_call.result =
                     LayoutErr([kind |-> "OutOfRange", idx |-> layout_call.index,
                                len |-> Resolved.info.count])

\* The index 65535 was looked up in a frames layout of 65535 frames.
C18_Witness ==
    /\ layout.kind = "Frames"
    /\ layout_call.op = "frame"
    /\ Resolved.status = "ok"
    /\ Resolved.info.count = TileIndexLimit - 1
    /\ layout_call.index = TileIndexLimit - 1
    /\ layout_call.result.status = "err"
    /\ layout_call.result.err.kind = "OutOfRange"

-----------------------------------------------------------------------------
(* The tile copier on a resolved frame: copy_base_image, src/importer/texture_builder.rs *)

\* `v as usize` of a u32 that no buffer of the model reaches: the buffers are
\* shorter than Word bytes.
BeyondBuffers(v) == v < 0 \/ v >= Word

\* (min.x + min.y * width) of lines 126-127, in u32.
PixelIndex(at, width) == WrappingAdd(at[1], WrappingMul(at[2], width))
PixelIndexOverflows(at, width) ==
    \/ MulOverflows(at[2], width)
    \/ AddOverflows(at[1], WrappingMul(at[2], width))

\* copy_base_image from line 110 on, for a frame of u32 corners: frame.size()
\* and the two pixel indices are computed in u32 (a build with overflow checks
\* panics when they overflow), turned into usize, and the rows are sliced from
\* there. [ok, panic, err, base]
CopyFrameRows(tgt, src, f, pixel_bytes, overflow_checks) ==
    IF overflow_checks /\ \/ VSubOverflows(f.max, f.min)
                          \/ PixelIndexOverflows(f.min, src.size[1])
                          \/ PixelIndexOverflows(f.anchor, tgt.size[1])
        THEN [ok |-> FALSE, panic |-> TRUE, err |-> [kind |-> "none"], base |-> tgt]
    ELSE IF RectSize(f)[2] = 0
        THEN [ok |-> TRUE, panic |-> FALSE, err |-> [kind |-> "none"], base |-> tgt]
    ELSE IF \/ BeyondBuffers(RectSize(f)[1])
            \/ BeyondBuffers(RectSize(f)[2])
            \/ BeyondBuffers(PixelIndex(f.min, src.size[1]))
            \/ BeyondBuffers(PixelIndex(f.anchor, tgt.size[1]))
        THEN [ok |-> FALSE, panic |-> TRUE, err |-> [kind |-> "none"], base |-> tgt]
    ELSE CopyRows(tgt, src,
                  TileFrame(<<PixelIndex(f.min, src.size[1]), 0>>,
                            <<PixelIndex(f.min, src.size[1]) + RectSize(f)[1], RectSize(f)[2]>>,
                            <<PixelIndex(f.anchor, tgt.size[1]), 0>>),
                  pixel_bytes)

\* layout.tile_frames(image_size, tile_size): the layout is validated against
\* the image by tile_info, and the accessor hands out the frames of frame().
TileFrames(l, size, overflow_checks) == TileInfo(l, size, overflow_checks)

\* The layouts the copier is run on: the whole image; grids without and with
\* padding and margin; frames that fit, one of them smaller than the tile and
\* anchored; a frame outside the image; an anchor near u32::MAX; a frame whose
\* min lies beyond its max under an anchor that makes up for it.
CopyLayouts ==
    {[kind |-> "Single"],
     GridLayout(<<2, 2>>, <<0, 0>>, <<0, 0>>, <<0, 0>>),
     GridLayout(<<2, 2>>, <<1, 1>>, <<1, 1>>, <<0, 0>>),
     GridLayout(<<1, 2>>, <<0, 0>>, <<0, 0>>, <<0, 0>>),
     FramesLayout(<<2, 2>>, <<Run(<<0, 0>>, <<2, 2>>, <<0, 0>>, 1),
                              Run(<<2, 0>>, <<3, 1>>, <<1, 1>>, 1),
                              Run(<<1, 2>>, <<3, 3>>, <<0, 1>>, 1)>>),
     FramesLayout(<<3, 2>>, <<Run(<<1, 1>>, <<3, 3>>, <<1, 0>>, 1)>>),
     FramesLayout(<<2, 2>>, <<Run(<<3, 3>>, <<5, 5>>, <<0, 0>>, 1)>>),
     FramesLayout(<<2, 2>>, <<Run(<<0, 0>>, <<2, 2>>, <<U32Max, 0>>, 1)>>),
     FramesLayout(<<2, 2>>, <<Run(<<3, 0>>, <<1, 1>>, <<2, 0>>, 1)>>)}

CopyImageSizes == {<<3, 3>>, <<4, 4>>, <<5, 5>>}

CopyTileIndices == {0, 1, 2}

CopyFormats == {"R8Unorm", "Rgba8Unorm"}

\* The source image of a size: every pixel has its own value.
CopySource(size, format) == SourceImage(size, format, 10, FALSE)

CopyInit ==
    /\ GroupsStart
    /\ ImportIdle
    /\ FileIdle
    /\ MipIdle
    /\ layout \in CopyLayouts
    /\ image_size \in CopyImageSizes
    /\ layout_call = NoCall

\* copy_base_image for the tile `index` of a source of the layout and the
\* image of the state, into the zeroed base buffer of a new builder whose tile
\* size is that of the layout. A layout that does not resolve, or an index it
\* does not have, ends the call before the copy.
CallCopy(index, format, overflow_checks) ==
    /\ \E info \in {TileFrames(layout, image_size, overflow_checks)},
          got \in {Frame(layout, image_size, index, overflow_checks)} :
        layout_call' =
            [op |-> "copy", index |-> index, format |-> format,
             overflow_checks |-> overflow_checks,
             validated |-> info.status,
             frame |-> got,
             result |-> IF info.status # "ok" \/ got.status # "ok"
                            THEN [ok |-> FALSE, panic |-> FALSE, err |-> [kind |-> "layout"],
                                  base |-> NoImage]
                            ELSE CopyFrameRows(NewFill(info.info.size, format),
                                               CopySource(image_size, format), got.frame,
                                               PixelSize(format).bytes, overflow_checks)]
    /\ UNCHANGED <<layout, image_size, groupVars, importVars, fileVars, mipVars>>

CopyNext ==
    \E index \in CopyTileIndices, format \in CopyFormats, overflow_checks \in BOOLEAN :
        CallCopy(index, format, overflow_checks)

SpecCopy == CopyInit /\ [][CopyNext]_vars

\* The last call copied a tile whose layout passed tile_info and whose frame
\* the layout handed out.
CopiedValidated ==
    /\ layout_call.op = "copy"
    /\ layout_call.validated = "ok"
    /\ layout_call.frame.status = "ok"

\* C30: for a tile whose frame passed the validation of the layout, the copy
\* writes, for every offset (x, y) below the width and the height of the frame,
\* the source pixel at frame.min + (x, y) to the base level pixel at anchor +
\* (x, y), and every byte range it reads and writes lies inside the source
\* image and the tile canvas.
C30_CopyWithinBuffers ==
    CopiedValidated =>
        /\ layout_call.result.ok
        /\ \A x \in 0..(RectSize(layout_call.frame.frame)[1] - 1),
              y \in 0..(RectSize(layout_call.frame.frame)[2] - 1) :
               PixelAt(layout_call.result.base,
                       layout_call.frame.frame.anchor[1] + x,
                       layout_call.frame.frame.anchor[2] + y)
                   = PixelAt(CopySource(image_size, layout_call.format),
                             layout_call.frame.frame.min[1] + x,
                             layout_call.frame.frame.min[2] + y)

====
